---- MODULE Spec2Model ----
(***************************************************************************)
(* A model of the session / thread-continuity core of the Telegram bot:    *)
(*   - the SQLite store (db/initializer.py, db/repository.py),              *)
(*   - the thread resolver get_or_create_thread_id                          *)
(*     (bot/utils/openai_threads.py),                                       *)
(*   - OpenAIClient.ask (services/chatgpt/client.py).                       *)
(* Every coroutine is cut into steps at its awaits: the code between two    *)
(* awaits runs without interruption on the asyncio loop, an await lets any  *)
(* other coroutine run.                                                     *)
(*                                                                         *)
(* Three specifications share the definitions:                              *)
(*   SpecStore    direct calls of the repository with arbitrary arguments,  *)
(*   SpecResolve  overlapping calls of get_or_create_thread_id,             *)
(*   SpecAsk      one call of OpenAIClient.ask against a remote thread.     *)
(*                                                                         *)
(* Environment assumptions: SQLite I/O failures (disk, locking) are not     *)
(* modelled, only the errors the schema's constraints raise; the remote     *)
(* service may fail any call (OpenAIError) and decides every run status.    *)
(***************************************************************************)
EXTENDS Integers, Sequences, FiniteSets, TLC

\* ------------------------------------------------------------------ bounds
NumUsers == 2
MaxThreadId == 3
MaxRetriesInput == 3
MaxPolls == 1

\* ------------------------------------------------------------- value sets
Users == 1..NumUsers
\* db/enums.py SessionMode
Modes == {"gpt", "talk", "quiz", "random"}
\* the modes the direct repository calls of SpecStore are made with
CallModes == {"gpt", "quiz"}
\* Python's None, and the thread ids the remote service issues (1, 2, ...)
None == 0
ThreadIds == 1..MaxThreadId
\* the coroutines of each specification
ResolveCalls == {"r1", "r2", "r3"}
AskCalls == {"a1"}
AskThread == {1}

VARIABLES
    gpt_sessions,   \* table gpt_sessions: set of rows [tg_user_id, mode, openai_thread_id]
    gpt_messages,   \* table gpt_messages: sequence of rows, in rowid order
    storeCall,      \* the last direct repository call and what it returned
    threadsIssued,  \* remote service: number of threads created so far
    resolver,       \* per call of get_or_create_thread_id: its locals and position
    remoteRun,      \* remote service: by thread id, the latest run of the thread
    remoteMsgs,     \* remote service: by thread id, the messages, oldest first
    asker,          \* per call of OpenAIClient.ask: its locals and position
    quizzer,        \* per call of ask_quiz_with_retries: its locals and position
    clock,          \* the database's CURRENT_TIMESTAMP, in whole seconds
    remoteThreads,  \* remote service: the threads that exist
    clientCall,     \* the last direct call of create_thread, retrieve_thread
                    \* or delete_thread of OpenAIClient and what it returned
    handler,        \* the update handler the application is running, if any
    user_data       \* context.user_data of each Telegram user

botVars == <<clientCall, handler, user_data>>

vars == <<gpt_sessions, gpt_messages, storeCall, threadsIssued, resolver,
          remoteRun, remoteMsgs, asker, quizzer, clock, remoteThreads, botVars>>

storeVars == <<gpt_sessions, gpt_messages, storeCall, clock>>
askVars == <<remoteRun, remoteMsgs, asker, quizzer, botVars>>

\* ---------------------------------------------------------------- results
NoResult == [kind |-> "none", value |-> None, err |-> ""]
Return(v) == [kind |-> "return", value |-> v, err |-> ""]
Raise(e) == [kind |-> "raise", value |-> None, err |-> e]

\* =================================================================== store
SessionRow(u, m, t) == [tg_user_id |-> u, mode |-> m, openai_thread_id |-> t]

\* SELECT openai_thread_id FROM gpt_sessions WHERE tg_user_id = ? AND mode = ?
\* ; fetchone(); row[0] if row else None
get_thread_id_none(tbl, u, m) == None
get_thread_id(tbl, u, m) ==
    IF \E r \in tbl : r.tg_user_id = u /\ r.mode = m
    THEN (CHOOSE r \in tbl : r.tg_user_id = u /\ r.mode = m).openai_thread_id
    ELSE None

\* The constraints of gpt_sessions an INSERT of (u, m, t) violates:
\* openai_thread_id TEXT NOT NULL UNIQUE, UNIQUE(tg_user_id, mode)
SessionConflictNoThreadUnique(tbl, u, m, t) ==
    \/ t = None
    \/ \E r \in tbl : r.tg_user_id = u /\ r.mode = m
SessionConflictNoPairUnique(tbl, u, m, t) ==
    \/ t = None
    \/ \E r \in tbl : r.openai_thread_id = t
SessionConflict(tbl, u, m, t) ==
    \/ t = None
    \/ \E r \in tbl : r.tg_user_id = u /\ r.mode = m
    \/ \E r \in tbl : r.openai_thread_id = t

\* INSERT INTO gpt_sessions ...; commit.  sqlite3.IntegrityError is an
\* aiosqlite.Error: logged and re-raised, nothing committed.
create_thread_or_replace(tbl, u, m, t) ==
    IF t = None
    THEN [result |-> Raise("IntegrityError"), table |-> tbl]
    ELSE [result |-> Return(None),
          table |-> {r \in tbl : ~ (r.tg_user_id = u /\ r.mode = m) /\ r.openai_thread_id # t}
                       \cup {SessionRow(u, m, t)}]
create_thread(tbl, u, m, t) ==
    IF SessionConflict(tbl, u, m, t)
    THEN [result |-> Raise("IntegrityError"), table |-> tbl]
    ELSE [result |-> Return(None), table |-> tbl \cup {SessionRow(u, m, t)}]

\* ------------------------------------------------- direct repository calls
NoCall == [op |-> "none", tg_user_id |-> 0, mode |-> "", openai_thread_id |-> None,
           result |-> NoResult, before |-> {}, rows |-> <<>>, log |-> <<>>]

GetThreadIdCall(u, m) ==
    /\ storeCall' = [op |-> "get_thread_id", tg_user_id |-> u, mode |-> m,
                     openai_thread_id |-> None,
                     result |-> Return(get_thread_id(gpt_sessions, u, m)),
                     before |-> gpt_sessions, rows |-> <<>>, log |-> <<>>]
    /\ UNCHANGED <<gpt_sessions, gpt_messages, clock, threadsIssued, remoteThreads, resolver, askVars>>

CreateThreadCall(u, m, t) ==
    LET r == create_thread(gpt_sessions, u, m, t) IN
    /\ gpt_sessions' = r.table
    /\ storeCall' = [op |-> "create_thread", tg_user_id |-> u, mode |-> m,
                     openai_thread_id |-> t, result |-> r.result,
                     before |-> gpt_sessions, rows |-> <<>>, log |-> <<>>]
    /\ UNCHANGED <<gpt_messages, clock, threadsIssued, remoteThreads, resolver, askVars>>

\* ------------------------------------------------------------ gpt_messages
MaxMessages == 3

MessageThreads == {1, 2}
MessageRoles == {"user", "assistant", "system"}
RoleInputs == {"user", "assistant", "tool"}
ContentInputs == {"a"}

MessageRow(t, role, content, at) ==
    [openai_thread_id |-> t, role |-> role, content |-> content, created_at |-> at]

\* PRAGMA foreign_keys on the connections add_message, get_messages and
\* clear_thread open.  The setting is per connection and off unless the
\* connection turns it on; only get_thread_id and create_thread do.
ForeignKeys == FALSE

\* The constraints of gpt_messages an INSERT of (t, role, content) violates:
\* three NOT NULLs, CHECK(role IN ...), and the FOREIGN KEY when enforced.
MessageConflict(sessions, t, role, content) ==
    \/ t = None
    \/ role \notin MessageRoles
    \/ ForeignKeys /\ ~ \E r \in sessions : r.openai_thread_id = t

\* INSERT INTO gpt_messages (openai_thread_id, role, content); commit.
\* created_at takes CURRENT_TIMESTAMP, here now; id takes the next rowid.
add_message_drops_user(sessions, msgs, t, role, content, now) ==
    IF MessageConflict(sessions, t, role, content)
    THEN [result |-> Raise("IntegrityError"), table |-> msgs]
    ELSE [result |-> Return(None),
          table |-> IF role = "user" THEN msgs
                    ELSE Append(msgs, MessageRow(t, role, content, now))]
add_message(sessions, msgs, t, role, content, now) ==
    IF MessageConflict(sessions, t, role, content)
    THEN [result |-> Raise("IntegrityError"), table |-> msgs]
    ELSE [result |-> Return(None),
          table |-> Append(msgs, MessageRow(t, role, content, now))]

\* The rows of a thread, in rowid order.
ThreadRows(msgs, t) == SelectSeq(msgs, LAMBDA r : r.openai_thread_id = t)

\* ORDER BY created_at: every arrangement of the rows with created_at
\* non-decreasing.  SQL leaves the order of rows with equal keys open.
OrderByCreatedAt(rows) ==
    LET n == Len(rows)
        perms == {f \in [1..n -> 1..n] : \A i, j \in 1..n : i # j => f[i] # f[j]}
    IN {[i \in 1..n |-> rows[f[i]]] : f \in
           {g \in perms : \A i \in 1..(n - 1) :
                rows[g[i]].created_at <= rows[g[i + 1]].created_at}}

\* [{"role": row[0], "content": row[1]} for row in rows]
AsDicts(rows) == [i \in 1..Len(rows) |-> [role |-> rows[i].role, content |-> rows[i].content]]

\* SELECT role, content ... WHERE openai_thread_id = ? ORDER BY created_at:
\* the lists the call can return.
get_messages(msgs, t) == {AsDicts(rows) : rows \in OrderByCreatedAt(ThreadRows(msgs, t))}

\* A call of add_message at time now: the clock stands or has moved on a second
\* since the last insert.
AddMessageCall(t, role, content, now) ==
    LET r == add_message(gpt_sessions, gpt_messages, t, role, content, now) IN
    /\ Len(gpt_messages) < MaxMessages
    /\ now \in {clock, clock + 1}
    /\ clock' = now
    /\ gpt_messages' = r.table
    /\ storeCall' = [op |-> "add_message", tg_user_id |-> 0, mode |-> "",
                     openai_thread_id |-> t, result |-> r.result,
                     before |-> gpt_sessions, rows |-> <<>>, log |-> <<>>]
    /\ UNCHANGED <<gpt_sessions, threadsIssued, remoteThreads, resolver, askVars>>

GetMessagesCall(t) ==
    /\ \E out \in get_messages(gpt_messages, t) :
          storeCall' = [op |-> "get_messages", tg_user_id |-> 0, mode |-> "",
                        openai_thread_id |-> t, result |-> Return(None),
                        before |-> gpt_sessions, rows |-> out, log |-> <<>>]
    /\ UNCHANGED <<gpt_sessions, gpt_messages, clock, threadsIssued, remoteThreads, resolver, askVars>>

\* DELETE FROM gpt_messages WHERE openai_thread_id = ?; commit.  The statement
\* names no other table; a thread without rows deletes nothing.
clear_thread_every_row(sessions, msgs, t) ==
    [result |-> Return(None), sessions |-> sessions, table |-> <<>>]
clear_thread_and_session(sessions, msgs, t) ==
    [result |-> Return(None),
     sessions |-> {r \in sessions : r.openai_thread_id # t},
     table |-> SelectSeq(msgs, LAMBDA r : r.openai_thread_id # t)]
clear_thread(sessions, msgs, t) ==
    [result |-> Return(None), sessions |-> sessions,
     table |-> SelectSeq(msgs, LAMBDA r : r.openai_thread_id # t)]

ClearThreadCall(t) ==
    LET r == clear_thread(gpt_sessions, gpt_messages, t) IN
    /\ gpt_sessions' = r.sessions
    /\ gpt_messages' = r.table
    /\ storeCall' = [op |-> "clear_thread", tg_user_id |-> 0, mode |-> "",
                     openai_thread_id |-> t, result |-> r.result,
                     before |-> gpt_sessions, rows |-> <<>>, log |-> gpt_messages]
    /\ UNCHANGED <<clock, threadsIssued, remoteThreads, resolver, askVars>>

\* No function of the repository deletes a row of gpt_sessions; the schema
\* provides for it with ON DELETE CASCADE.  This is the statement
\* DELETE FROM gpt_sessions WHERE openai_thread_id = ? run on a connection
\* whose PRAGMA foreign_keys is fk: SQLite applies the cascade only when the
\* pragma is on for the connection that deletes.
delete_session(sessions, msgs, t, fk) ==
    [sessions |-> {r \in sessions : r.openai_thread_id # t},
     table |-> IF fk THEN SelectSeq(msgs, LAMBDA r : r.openai_thread_id # t) ELSE msgs]

DeleteSessionStatement(t, fk) ==
    LET r == delete_session(gpt_sessions, gpt_messages, t, fk) IN
    /\ gpt_sessions' = r.sessions
    /\ gpt_messages' = r.table
    /\ storeCall' = [op |-> "delete_session", tg_user_id |-> 0, mode |-> "",
                     openai_thread_id |-> t, result |-> Return(None),
                     before |-> gpt_sessions, rows |-> <<>>, log |-> gpt_messages]
    /\ UNCHANGED <<clock, threadsIssued, remoteThreads, resolver, askVars>>

\* ================================================================ resolver
\* bot/utils/openai_threads.py get_or_create_thread_id, one record per call.
\*   pc      "idle" | "get_thread_id" | "create_thread" | "insert" | "done"
\*   calls   the calls made on the OpenAI client, in order
\*   writes  the rows this call added to or removed from the store
\*   seen    the thread ids earlier calls for the same pair had returned
\*           when this call started
\*   absent  the lookup of this call returned None
IdleResolver == [pc |-> "idle", tg_user_id |-> 0, mode |-> "", thread_id |-> None,
                 result |-> NoResult, calls |-> <<>>, writes |-> {},
                 seen |-> {}, absent |-> FALSE]

ClientCall(op, ok, id) == [op |-> op, ok |-> ok, thread_id |-> id]

ReturnedFor(u, m) ==
    {resolver[q].result.value : q \in {c \in ResolveCalls :
        /\ resolver[c].pc = "done"
        /\ resolver[c].tg_user_id = u /\ resolver[c].mode = m
        /\ resolver[c].result.kind = "return"}}

StartResolve(p, u, m) ==
    /\ resolver[p].pc = "idle"
    /\ resolver' = [resolver EXCEPT ![p] =
           [@ EXCEPT !.pc = "get_thread_id", !.tg_user_id = u, !.mode = m,
                     !.seen = ReturnedFor(u, m)]]
    /\ UNCHANGED <<storeVars, threadsIssued, remoteThreads, askVars>>

\* thread_id = await thread_repository.get_thread_id(tg_user_id, mode)
\* if thread_id is None: ... ; return thread_id
AfterLookup(c, found) ==
    IF found = None
    THEN [c EXCEPT !.pc = "create_thread", !.thread_id = None, !.absent = TRUE]
    ELSE [c EXCEPT !.pc = "done", !.thread_id = found, !.result = Return(found)]

ResolveLookup(p) ==
    /\ resolver[p].pc = "get_thread_id"
    /\ resolver' = [resolver EXCEPT ![p] =
           AfterLookup(@, get_thread_id(gpt_sessions, @.tg_user_id, @.mode))]
    /\ UNCHANGED <<storeVars, threadsIssued, remoteThreads, askVars>>

\* thread = await openai_client.create_thread(); thread_id = thread.id
\* OpenAIClient.create_thread logs an OpenAIError and re-raises it; the
\* resolver has no handler, so the error ends the call.
AfterRemoteCreateSwallow(c, ok, id) ==
    [c EXCEPT !.pc = "insert", !.thread_id = IF ok THEN id ELSE None,
              !.calls = Append(@, ClientCall("create_thread", ok, IF ok THEN id ELSE None))]
AfterRemoteCreate(c, ok, id) ==
    IF ok
    THEN [c EXCEPT !.pc = "insert", !.thread_id = id,
                   !.calls = Append(@, ClientCall("create_thread", TRUE, id))]
    ELSE [c EXCEPT !.pc = "done", !.result = Raise("OpenAIError"),
                   !.calls = Append(@, ClientCall("create_thread", FALSE, None))]

ResolveRemoteCreate(p) ==
    /\ resolver[p].pc = "create_thread"
    /\ \E ok \in BOOLEAN :
         /\ threadsIssued' = IF ok THEN threadsIssued + 1 ELSE threadsIssued
         /\ remoteThreads' = IF ok THEN remoteThreads \cup {threadsIssued + 1}
                              ELSE remoteThreads
         /\ resolver' = [resolver EXCEPT ![p] =
                AfterRemoteCreate(@, ok, threadsIssued + 1)]
    /\ UNCHANGED <<storeVars, askVars>>

\* await thread_repository.create_thread(tg_user_id, mode, thread_id)
\* return thread_id
AfterInsert(c, res) ==
    IF res.kind = "raise"
    THEN [c EXCEPT !.pc = "done", !.result = res]
    ELSE [c EXCEPT !.pc = "done", !.result = Return(c.thread_id)]

ResolveInsert(p) ==
    LET c == resolver[p]
        r == create_thread(gpt_sessions, c.tg_user_id, c.mode, c.thread_id) IN
    /\ c.pc = "insert"
    /\ gpt_sessions' = r.table
    /\ resolver' = [resolver EXCEPT ![p] =
           [AfterInsert(c, r.result) EXCEPT
               !.writes = @ \cup (r.table \ gpt_sessions) \cup (gpt_sessions \ r.table)]]
    /\ UNCHANGED <<gpt_messages, storeCall, clock, threadsIssued, remoteThreads, askVars>>

\* ===================================================================== ask
\* services/chatgpt/client.py OpenAIClient.ask.
\*
\* The remote service is the environment.  A run is observed when it is
\* created and each time it is retrieved; what is observed is the run's state
\* at that moment: [status, code], code being last_error.code of a failed run.
\* A run moves queued -> in_progress -> terminal and a terminal run never
\* changes.  "expired" stands for the terminal statuses other than completed
\* and failed (cancelled, expired, incomplete).  The assistants are created
\* without tools and no code cancels a run, so requires_action and cancelling
\* do not occur.
NoRun == [id |-> 0, status |-> "none", code |-> ""]
RunObservations ==
    {[status |-> "queued", code |-> ""],
     [status |-> "in_progress", code |-> ""],
     [status |-> "completed", code |-> ""],
     [status |-> "failed", code |-> "server_error"],
     [status |-> "failed", code |-> "rate_limit_exceeded"],
     [status |-> "expired", code |-> ""]}

Rank(status) ==
    CASE status = "queued" -> 0
      [] status = "in_progress" -> 1
      [] OTHER -> 2

\* what a retrieve of a run last seen as `old` may observe
MayObserve(old, obs) ==
    IF Rank(old.status) = 2
    THEN obs.status = old.status /\ obs.code = old.code
    ELSE Rank(obs.status) >= Rank(old.status)

\* the texts an assistant message may carry, and the thread's histories at
\* the start of a call
ReplyTexts == {"hi there"}
Msg(role, content) == [role |-> role, content |-> content]
InitialHistories ==
    {<<>>, <<Msg("user", "hello"), Msg("assistant", "old reply")>>}

\* A run that completes adds zero or one assistant message to the thread.
Produced(msgs, old, obs, text) ==
    IF obs.status = "completed" /\ old.status # "completed" /\ text # ""
    THEN Append(msgs, Msg("assistant", text))
    ELSE msgs

\* One record per call of ask.
\*   pc        "idle" | "runs_list" | "drain" | "post" | "run_create" |
\*             "run_poll" | "backoff" | "messages_list" | "done"
\*   calls     the awaits of the call, in order: client calls and sleeps
\*   outcomes  the terminal observation of each run the call started
\*   polls     retrieves that observed a run still queued or in progress
\*   spin      parity of the polls made after calls stopped recording them
\*             (SpecAskLive only: there the remote run may stay active for ever)
AskNoResult == [kind |-> "none", value |-> "", err |-> "", cause |-> "", detail |-> ""]
AskReturn(text) ==
    [kind |-> "return", value |-> text, err |-> "", cause |-> "", detail |-> ""]
AskRaise(cause, detail) ==
    [kind |-> "raise", value |-> "", err |-> "OpenAIError", cause |-> cause,
     detail |-> detail]

IdleAsker == [pc |-> "idle", thread_id |-> None, user_message |-> "", max_retries |-> 0, attempt |-> 0,
              latest_run |-> NoRun, run |-> NoRun, result |-> AskNoResult,
              calls |-> <<>>, outcomes |-> <<>>, polls |-> 0, spin |-> 0]

Event(op, run, status, code, secs) ==
    [op |-> op, run |-> run, status |-> status, code |-> code, secs |-> secs]

\* except OpenAIError as e: logger.error(...); raise        (lines 166-168)
ApiError(c, op, run) ==
    [c EXCEPT !.pc = "done", !.result = AskRaise("api_error", op),
              !.calls = Append(@, Event(op, run, "error", "", 0))]

\* ask(assistant_id, thread_id, user_message, max_retries): every call of
\* the client in it passes thread_id=thread_id.
CallThreadShared(c) ==
    CHOOSE t \in DOMAIN remoteRun : \A x \in DOMAIN remoteRun : t <= x
CallThread(c) == c.thread_id

StartAsk(p, t, msg, n) ==
    /\ asker[p].pc = "idle"
    /\ t \in DOMAIN remoteRun
    /\ asker' = [asker EXCEPT ![p] =
           [@ EXCEPT !.pc = "runs_list", !.thread_id = t, !.user_message = msg,
                     !.max_retries = n]]
    /\ UNCHANGED <<storeVars, threadsIssued, remoteThreads, resolver, quizzer, botVars, remoteRun, remoteMsgs>>

\* latest_run.status in ["queued", "in_progress"]          (lines 112, 114)
PriorRunActiveQueuedOnly(status) == status = "queued"
PriorRunActive(status) == status \in {"queued", "in_progress"}

\* run.status in ["queued", "in_progress"]                        (line 137)
RunActive(status) == status \in {"queued", "in_progress"}

\* runs = await runs.list(thread_id, limit=1)
\* latest_run = runs.data[0] if runs.data else None
\* if latest_run and latest_run.status in ["queued", "in_progress"]: ...
AskRunsList(p) ==
    LET c == asker[p] IN
    /\ c.pc = "runs_list"
    /\ \E ok \in BOOLEAN :
         asker' = [asker EXCEPT ![p] =
            IF ~ok THEN ApiError(c, "runs.list", 0)
            ELSE [c EXCEPT
                    !.latest_run = remoteRun[CallThread(c)],
                    !.calls = Append(@, Event("runs.list", 0, remoteRun[CallThread(c)].status,
                                              remoteRun[CallThread(c)].code, 0)),
                    !.pc = IF remoteRun[CallThread(c)].id # 0 /\ PriorRunActive(remoteRun[CallThread(c)].status)
                           THEN "drain" ELSE "post"]]
    /\ UNCHANGED <<storeVars, threadsIssued, remoteThreads, resolver, quizzer, botVars, remoteRun, remoteMsgs>>

\* while latest_run.status in ["queued", "in_progress"]:
\*     await asyncio.sleep(1); latest_run = await runs.retrieve(...)
\* if latest_run.status == "failed": raise OpenAIError("Previous run failed")
AfterDrainPollNoFailedCheck(c, obs) ==
    LET c1 == [c EXCEPT
                 !.latest_run = [id |-> c.latest_run.id, status |-> obs.status,
                                 code |-> obs.code],
                 !.calls = @ \o <<Event("sleep(poll)", 0, "", "", 1),
                                  Event("runs.retrieve", 0, obs.status, obs.code, 0)>>]
    IN  IF PriorRunActive(obs.status)
        THEN [c1 EXCEPT !.pc = "drain", !.polls = @ + 1]
        ELSE [c1 EXCEPT !.pc = "post"]
AfterDrainPoll(c, obs) ==
    LET c1 == [c EXCEPT
                 !.latest_run = [id |-> c.latest_run.id, status |-> obs.status,
                                 code |-> obs.code],
                 !.calls = @ \o <<Event("sleep(poll)", 0, "", "", 1),
                                  Event("runs.retrieve", 0, obs.status, obs.code, 0)>>]
    IN  IF PriorRunActive(obs.status)
        THEN [c1 EXCEPT !.pc = "drain", !.polls = @ + 1]
        ELSE IF obs.status = "failed"
        THEN [c1 EXCEPT !.pc = "done",
                        !.result = AskRaise("previous_run_failed", obs.code)]
        ELSE [c1 EXCEPT !.pc = "post"]

AskDrainPoll(p) ==
    LET c == asker[p] IN
    /\ c.pc = "drain"
    /\ \/ /\ asker' = [asker EXCEPT ![p] =
                 ApiError([c EXCEPT !.calls = Append(@, Event("sleep(poll)", 0, "", "", 1))],
                          "runs.retrieve", 0)]
          /\ UNCHANGED <<remoteRun, remoteMsgs>>
       \/ \E obs \in RunObservations, text \in ReplyTexts \cup {""} :
            /\ MayObserve(remoteRun[CallThread(c)], obs)
            /\ RunActive(obs.status) => c.polls < MaxPolls
            /\ obs.status # "completed" => text = ""
            /\ remoteRun' = [remoteRun EXCEPT ![CallThread(c)] = [@ EXCEPT !.status = obs.status, !.code = obs.code]]
            /\ remoteMsgs' = [remoteMsgs EXCEPT ![CallThread(c)] =
                  Produced(@, remoteRun[CallThread(c)], obs, text)]
            /\ asker' = [asker EXCEPT ![p] = AfterDrainPoll(c, obs)]
    /\ UNCHANGED <<storeVars, threadsIssued, remoteThreads, resolver, quizzer, botVars>>

\* for attempt in range(1, max_retries + 1): the next iteration, or the end
\* of the loop and the statements after it
NextIterationOneMore(c, attempt) ==
    IF attempt <= c.max_retries + 1
    THEN [c EXCEPT !.pc = "run_create", !.attempt = attempt]
    ELSE [c EXCEPT !.pc = "messages_list"]
NextIterationRepost(c, attempt) ==
    IF attempt <= c.max_retries
    THEN [c EXCEPT !.pc = IF attempt > 1 THEN "post" ELSE "run_create",
                   !.attempt = attempt]
    ELSE [c EXCEPT !.pc = "messages_list"]
NextIteration(c, attempt) ==
    IF attempt <= c.max_retries
    THEN [c EXCEPT !.pc = "run_create", !.attempt = attempt]
    ELSE [c EXCEPT !.pc = "messages_list"]

\* await messages.create(thread_id, role="user", content=user_message)
AskPostMessage(p) ==
    LET c == asker[p] IN
    /\ c.pc = "post"
    /\ \/ /\ asker' = [asker EXCEPT ![p] = ApiError(c, "messages.create", 0)]
          /\ UNCHANGED remoteMsgs
       \/ /\ remoteMsgs' = [remoteMsgs EXCEPT ![CallThread(c)] =
                  Append(@, Msg("user", c.user_message))]
          /\ asker' = [asker EXCEPT ![p] =
                 NextIteration([c EXCEPT !.calls =
                     Append(@, Event("messages.create", 0, "", "", 0))], 1)]
    /\ UNCHANGED <<storeVars, threadsIssued, remoteThreads, resolver, quizzer, botVars, remoteRun>>

\* if error_code == "server_error" and attempt < max_retries:     (line 152)
ShouldRetryOffByOne(error_code, attempt, max_retries) ==
    error_code = "server_error" /\ attempt < max_retries - 1
ShouldRetryInclusive(error_code, attempt, max_retries) ==
    error_code = "server_error" /\ attempt <= max_retries
ShouldRetryAnyCode(error_code, attempt, max_retries) ==
    attempt < max_retries
ShouldRetry(error_code, attempt, max_retries) ==
    error_code = "server_error" /\ attempt < max_retries

\* The statements after an observation of the run of this attempt (lines
\* 137-155): poll again, break, back off and continue, raise; a terminal
\* status that is neither completed nor failed falls through both ifs and
\* the for loop goes on.
AfterRunObserved(c, obs) ==
    LET c1 == [c EXCEPT !.run = [id |-> c.run.id, status |-> obs.status,
                                 code |-> obs.code]]
        c2 == [c1 EXCEPT !.outcomes = Append(@, obs)]
    IN  IF RunActive(obs.status) THEN [c1 EXCEPT !.pc = "run_poll"]
        ELSE IF obs.status = "completed" THEN [c2 EXCEPT !.pc = "messages_list"]
        ELSE IF obs.status = "failed"
        THEN IF ShouldRetry(obs.code, c.attempt, c.max_retries)
             THEN [c2 EXCEPT !.pc = "backoff"]
             ELSE [c2 EXCEPT !.pc = "done", !.result = AskRaise("run_failed", obs.code)]
        ELSE NextIteration(c2, c.attempt + 1)

\* run = await runs.create(thread_id, assistant_id, model, temperature)
AskRunCreate(p) ==
    LET c == asker[p] IN
    /\ c.pc = "run_create"
    /\ \/ /\ asker' = [asker EXCEPT ![p] = ApiError(c, "runs.create", c.attempt)]
          /\ UNCHANGED <<remoteRun, remoteMsgs>>
       \/ \E obs \in RunObservations, text \in ReplyTexts \cup {""} :
            /\ obs.status # "completed" => text = ""
            /\ remoteRun' = [remoteRun EXCEPT ![CallThread(c)] =
                  [id |-> @.id + 1, status |-> obs.status, code |-> obs.code]]
            /\ remoteMsgs' = [remoteMsgs EXCEPT ![CallThread(c)] =
                  Produced(@, NoRun, obs, text)]
            /\ asker' = [asker EXCEPT ![p] =
                   AfterRunObserved(
                       [c EXCEPT !.run = [id |-> remoteRun[CallThread(c)].id + 1, status |-> "none",
                                          code |-> ""],
                                 !.calls = Append(@, Event("runs.create", c.attempt,
                                                           obs.status, obs.code, 0))],
                       obs)]
    /\ UNCHANGED <<storeVars, threadsIssued, remoteThreads, resolver, quizzer, botVars>>

\* await asyncio.sleep(1); run = await runs.retrieve(thread_id, run.id)
AskRunPoll(p) ==
    LET c == asker[p] IN
    /\ c.pc = "run_poll"
    /\ \/ /\ asker' = [asker EXCEPT ![p] =
                 ApiError([c EXCEPT !.calls =
                              Append(@, Event("sleep(poll)", c.attempt, "", "", 1))],
                          "runs.retrieve", c.attempt)]
          /\ UNCHANGED <<remoteRun, remoteMsgs>>
       \/ \E obs \in RunObservations, text \in ReplyTexts \cup {""} :
            /\ MayObserve(remoteRun[CallThread(c)], obs)
            /\ RunActive(obs.status) => c.polls < MaxPolls
            /\ obs.status # "completed" => text = ""
            /\ remoteRun' = [remoteRun EXCEPT ![CallThread(c)] = [@ EXCEPT !.status = obs.status, !.code = obs.code]]
            /\ remoteMsgs' = [remoteMsgs EXCEPT ![CallThread(c)] =
                  Produced(@, remoteRun[CallThread(c)], obs, text)]
            /\ asker' = [asker EXCEPT ![p] =
                   AfterRunObserved(
                       [c EXCEPT !.polls = IF RunActive(obs.status) THEN @ + 1 ELSE @,
                                 !.calls = @ \o
                                    <<Event("sleep(poll)", c.attempt, "", "", 1),
                                      Event("runs.retrieve", c.attempt, obs.status,
                                            obs.code, 0)>>],
                       obs)]
    /\ UNCHANGED <<storeVars, threadsIssued, remoteThreads, resolver, quizzer, botVars>>

\* await asyncio.sleep(2 ** attempt); continue                (lines 153-154)
BackoffHalved(attempt) == 2 ^ (attempt - 1)
Backoff(attempt) == 2 ^ attempt

AskBackoff(p) ==
    LET c == asker[p] IN
    /\ c.pc = "backoff"
    /\ asker' = [asker EXCEPT ![p] =
           NextIteration([c EXCEPT !.calls =
               Append(@, Event("sleep(backoff)", c.attempt, "", "", Backoff(c.attempt)))],
               c.attempt + 1)]
    /\ UNCHANGED <<storeVars, threadsIssued, remoteThreads, resolver, quizzer, botVars, remoteRun, remoteMsgs>>

\* messages = await messages.list(thread_id): messages.data holds the newest
\* message first.  The first message of role assistant gives the reply (its
\* text content); with none, "".
RECURSIVE OldestAssistantText(_)
OldestAssistantText(msgs) ==
    IF msgs = <<>> THEN ""
    ELSE IF msgs[1].role = "assistant" THEN msgs[1].content
    ELSE OldestAssistantText(Tail(msgs))
LatestMessageText(msgs) ==
    IF msgs = <<>> THEN "" ELSE msgs[Len(msgs)].content
RECURSIVE LatestAssistantText(_)
LatestAssistantText(msgs) ==
    IF msgs = <<>> THEN ""
    ELSE IF msgs[Len(msgs)].role = "assistant" THEN msgs[Len(msgs)].content
    ELSE LatestAssistantText(SubSeq(msgs, 1, Len(msgs) - 1))

AskMessagesList(p) ==
    LET c == asker[p] IN
    /\ c.pc = "messages_list"
    /\ \E ok \in BOOLEAN :
         asker' = [asker EXCEPT ![p] =
            IF ~ok THEN ApiError(c, "messages.list", 0)
            ELSE [c EXCEPT !.pc = "done",
                           !.result = AskReturn(LatestAssistantText(remoteMsgs[CallThread(c)])),
                           !.calls = Append(@, Event("messages.list", 0, "", "", 0))]]
    /\ UNCHANGED <<storeVars, threadsIssued, remoteThreads, resolver, quizzer, botVars, remoteRun, remoteMsgs>>

\* The poll loops (lines 114-119 and 137-142) have no deadline and no counter:
\* while the retrieve observes queued or in_progress they sleep and retrieve
\* again.  AskDrainPoll and AskRunPoll record at most MaxPolls such polls;
\* these two steps are the same polls past that number, with calls and polls
\* left as they are.
AskDrainSpin(p) ==
    LET c == asker[p] IN
    /\ c.pc = "drain"
    /\ c.polls >= MaxPolls
    /\ \E obs \in RunObservations :
         /\ MayObserve(remoteRun[CallThread(c)], obs)
         /\ PriorRunActive(obs.status)
         /\ remoteRun' = [remoteRun EXCEPT ![CallThread(c)] = [@ EXCEPT !.status = obs.status, !.code = obs.code]]
         /\ asker' = [asker EXCEPT ![p] =
                [c EXCEPT !.latest_run = [id |-> c.latest_run.id, status |-> obs.status,
                                          code |-> obs.code],
                          !.spin = 1 - @]]
    /\ UNCHANGED <<storeVars, threadsIssued, remoteThreads, resolver, quizzer, botVars, remoteMsgs>>

AskRunSpin(p) ==
    LET c == asker[p] IN
    /\ c.pc = "run_poll"
    /\ c.polls >= MaxPolls
    /\ \E obs \in RunObservations :
         /\ MayObserve(remoteRun[CallThread(c)], obs)
         /\ RunActive(obs.status)
         /\ remoteRun' = [remoteRun EXCEPT ![CallThread(c)] = [@ EXCEPT !.status = obs.status, !.code = obs.code]]
         /\ asker' = [asker EXCEPT ![p] =
                [c EXCEPT !.run = [id |-> c.run.id, status |-> obs.status,
                                   code |-> obs.code],
                          !.spin = 1 - @]]
    /\ UNCHANGED <<storeVars, threadsIssued, remoteThreads, resolver, quizzer, botVars, remoteMsgs>>

\* ============================================== ask_quiz_with_retries
\* bot/utils/openai_quiz.py.  One step per attempt: the await of
\* openai_client.ask (line 41) and everything up to the next await, the return
\* or the raise.  The call of ask is taken by its outcome: it raises
\* OpenAIError or returns the reply text.

MaxAttemptsInput == 3

QuizCalls == {"q1"}

OpenAIError == "OpenAIError"

\* Reply texts, one for each way json.loads and the checks of line 60 can go.
QuizReplies ==
    { "",
      "Sorry, I cannot do that.",
      "{\"question\": \"2+2?\"}",
      "[]",
      "[{}]",
      "[{\"question\": \"2+2?\", \"options\": [\"3\", \"4\"], \"answer\": \"4\"}]",
      "[{\"question\": \"Which verb reads?\", \"options\": [\"GET\", \"PUT\"], \"answer\": \"GET\"}, {\"question\": \"2+2?\", \"options\": [\"3\", \"4\"], \"answer\": \"4\"}]" }

JSONDecodeError == [type |-> "JSONDecodeError", keys |-> {}, items |-> <<>>, answer |-> ""]
JsonObject(ks) == [type |-> "dict", keys |-> ks, items |-> <<>>, answer |-> ""]
JsonQuestion(ans) ==
    [type |-> "dict", keys |-> {"question", "options", "answer"}, items |-> <<>>,
     answer |-> ans]
JsonArray(elems) == [type |-> "list", keys |-> {}, items |-> elems, answer |-> ""]

\* json.loads on the reply texts: the decode error, or the value with the keys
\* of each object and, of a question, the value under "answer".
json_loads(text) ==
    CASE text = "{\"question\": \"2+2?\"}" -> JsonObject({"question"})
      [] text = "[]" -> JsonArray(<<>>)
      [] text = "[{}]" -> JsonArray(<<JsonObject({})>>)
      [] text = "[{\"question\": \"2+2?\", \"options\": [\"3\", \"4\"], \"answer\": \"4\"}]" ->
            JsonArray(<<JsonQuestion("4")>>)
      [] text = "[{\"question\": \"Which verb reads?\", \"options\": [\"GET\", \"PUT\"], \"answer\": \"GET\"}, {\"question\": \"2+2?\", \"options\": [\"3\", \"4\"], \"answer\": \"4\"}]" ->
            JsonArray(<<JsonQuestion("GET"), JsonQuestion("4")>>)
      [] OTHER -> JSONDecodeError

\* The keys quiz_handler reads from every element of the returned quiz_data.
RequiredFields == {"question", "options", "answer"}

HasRequiredFields(quiz_data) ==
    /\ quiz_data.type = "list"
    /\ quiz_data.items # <<>>
    /\ \A i \in 1..Len(quiz_data.items) :
          /\ quiz_data.items[i].type = "dict"
          /\ RequiredFields \subseteq quiz_data.items[i].keys

\* Line 60: not isinstance(quiz_data, list) or not quiz_data.
InvalidFormat(quiz_data) == quiz_data.type # "list" \/ quiz_data.items = <<>>

\* How one attempt ends, from the except clauses and the check of line 60.
AttemptCause(outcome) ==
    IF outcome = OpenAIError THEN "openai"
    ELSE IF json_loads(outcome) = JSONDecodeError THEN "json"
    ELSE IF InvalidFormat(json_loads(outcome)) THEN "format"
    ELSE "ok"

FailureMessageGeneric(cause) == "Unknown failure in quiz request."

\* Lines 49, 57, 63.
FailureMessage(cause) ==
    CASE cause = "openai" -> "Failed to generate quiz due to OpenAI error."
      [] cause = "json" -> "Received invalid JSON format for quiz."
      [] cause = "format" -> "Quiz data is invalid or empty."

QuizNoResult == [kind |-> "none", response |-> "", quiz_data |-> JSONDecodeError, message |-> ""]
QuizReturn(response, quiz_data) ==
    [kind |-> "return", response |-> response, quiz_data |-> quiz_data, message |-> ""]
QuizRaise(message) ==
    [kind |-> "raise", response |-> "", quiz_data |-> JSONDecodeError, message |-> message]

\* One call of ask_quiz_with_retries.
\*   attempt   the loop variable
\*   outcomes  history: what each call of ask gave, OpenAIError or the reply
\*   raised    history: the RuntimeErrors the call raised
IdleQuizzer == [pc |-> "idle", max_attempts |-> 0, attempt |-> 0,
                outcomes |-> <<>>, raised |-> <<>>, result |-> QuizNoResult]

\* Entry.  range(1, max_attempts + 1) is empty for max_attempts = 0 and the
\* function falls to line 68.
StartQuiz(q, n) ==
    /\ quizzer[q].pc = "idle"
    /\ quizzer' = [quizzer EXCEPT ![q] =
          IF n = 0
          THEN [IdleQuizzer EXCEPT !.pc = "done",
                   !.raised = <<"Unknown failure in quiz request.">>,
                   !.result = QuizRaise("Unknown failure in quiz request.")]
          ELSE [IdleQuizzer EXCEPT !.pc = "ask", !.max_attempts = n, !.attempt = 1]]
    /\ UNCHANGED <<storeVars, threadsIssued, remoteThreads, resolver, remoteRun, remoteMsgs, asker, botVars>>

\* The thread and the prompt the call is made with.
QuizThread == 1
QuizPrompt == "Please generate a new unique set of 10 quiz questions on the topic: python. Do not repeat previous questions in this thread."

\* What one call of ask(thread_id, user_message) leaves on the remote thread,
\* by its outcome: the message, posted by messages.create when the drain phase
\* has passed (client.py:123-127), and the reply when one is returned.  A call
\* that returns has posted.
AskEffectPostsOnce(msgs, prompt, posted, outcome) ==
    LET m1 == IF posted /\ Msg("user", prompt) \notin {msgs[i] : i \in DOMAIN msgs}
              THEN Append(msgs, Msg("user", prompt)) ELSE msgs
    IN  IF outcome \notin {OpenAIError, ""}
        THEN Append(m1, Msg("assistant", outcome)) ELSE m1
AskEffect(msgs, prompt, posted, outcome) ==
    LET m1 == IF posted THEN Append(msgs, Msg("user", prompt)) ELSE msgs
    IN  IF outcome \notin {OpenAIError, ""}
        THEN Append(m1, Msg("assistant", outcome)) ELSE m1

\* One pass of the loop body, lines 40-66.
QuizAttempt(q) ==
    LET c == quizzer[q] IN
    /\ c.pc = "ask"
    /\ \E outcome \in {OpenAIError} \cup QuizReplies, posted \in BOOLEAN :
         LET cause == AttemptCause(outcome)
             d == [c EXCEPT !.outcomes = Append(@, outcome)]
         IN /\ outcome # OpenAIError => posted
            /\ remoteMsgs' = [remoteMsgs EXCEPT ![QuizThread] =
                                 AskEffect(@, QuizPrompt, posted, outcome)]
            /\ quizzer' = [quizzer EXCEPT ![q] =
                 IF cause = "ok"
                 THEN [d EXCEPT !.pc = "done",
                                !.result = QuizReturn(outcome, json_loads(outcome))]
                 ELSE IF c.attempt = c.max_attempts
                 THEN [d EXCEPT !.pc = "done",
                                !.raised = Append(@, FailureMessage(cause)),
                                !.result = QuizRaise(FailureMessage(cause))]
                 ELSE [d EXCEPT !.attempt = @ + 1]]
    /\ UNCHANGED <<storeVars, threadsIssued, remoteThreads, resolver, remoteRun, asker, botVars>>

\* ============================================= OpenAIClient thread calls
\* services/chatgpt/client.py create_thread, retrieve_thread, delete_thread,
\* called directly.  remote_ok tells whether the call of the remote service
\* succeeded; a thread the service does not have cannot be retrieved or
\* deleted (the service answers with an error, an OpenAIError).
ClientResult(kind, value, flag, err) ==
    [kind |-> kind, value |-> value, flag |-> flag, err |-> err]

NoClientCall == [op |-> "none", thread_id |-> None, remote_ok |-> TRUE,
                 result |-> ClientResult("none", None, FALSE, "")]

\* try: thread = await threads.create(); return thread
\* except OpenAIError: log; raise
ClientCreateThreadCall ==
    /\ threadsIssued < MaxThreadId
    /\ \E ok \in BOOLEAN :
         /\ threadsIssued' = IF ok THEN threadsIssued + 1 ELSE threadsIssued
         /\ remoteThreads' = IF ok THEN remoteThreads \cup {threadsIssued + 1}
                              ELSE remoteThreads
         /\ clientCall' = [op |-> "create_thread", thread_id |-> None, remote_ok |-> ok,
                           result |-> IF ok
                                      THEN ClientResult("return", threadsIssued + 1, FALSE, "")
                                      ELSE ClientResult("raise", None, FALSE, "OpenAIError")]
    /\ UNCHANGED <<storeVars, resolver, remoteRun, remoteMsgs, asker, quizzer, handler,
                   user_data>>

\* try: return await threads.retrieve(thread_id)
\* except OpenAIError: log; raise
ClientRetrieveThreadCall(t) ==
    /\ \E ok \in BOOLEAN :
         /\ ok => t \in remoteThreads
         /\ clientCall' = [op |-> "retrieve_thread", thread_id |-> t, remote_ok |-> ok,
                           result |-> IF ok
                                      THEN ClientResult("return", t, FALSE, "")
                                      ELSE ClientResult("raise", None, FALSE, "OpenAIError")]
    /\ UNCHANGED <<storeVars, threadsIssued, remoteThreads, resolver, remoteRun,
                   remoteMsgs, asker, quizzer, handler, user_data>>

\* try: await threads.delete(thread_id); return True
\* except OpenAIError: log; return False
ClientDeleteThreadCall(t) ==
    /\ \E ok \in BOOLEAN :
         /\ ok => t \in remoteThreads
         /\ remoteThreads' = IF ok THEN remoteThreads \ {t} ELSE remoteThreads
         /\ clientCall' = [op |-> "delete_thread", thread_id |-> t, remote_ok |-> ok,
                           result |-> ClientResult("return", None, ok, "")]
    /\ UNCHANGED <<storeVars, threadsIssued, resolver, remoteRun, remoteMsgs, asker,
                   quizzer, handler, user_data>>

\* ================================================================ handlers
\* main.py builds the application with ApplicationBuilder().token(..).build():
\* updates are processed one after the other, a handler runs to its end
\* before the next update is taken.  handler is the one that runs.
\*   kind      "gpt_message_handler" | "random" | "handle_quiz_topic_selection"
\*             | "handle_quiz_answer"
\*   pc        "idle" | "resolve" | "lookup" | "add_user" | "ask" |
\*             "add_assistant" | "done"
\*   events    the repository calls, the call of ask and the texts sent to the
\*             user, in order
\*   asked     how the call of ask / ask_quiz_with_retries ended
\*   error     the exception that ended the handler, "" when it returned
\*   had_session, created   what get_or_create_thread_id found, the rows it wrote
\*   stored    history over all handlers: for whom and under which thread a
\*             message was stored
\*   quiz_before   user_data["quiz"] as the handler found it
BotUsers == {1, 2}

GptText == "hello"
RandomPrompt == "Give me a random interesting technical fact."
AnswerText == "4"
AnswerTexts == {AnswerText, "get"}
FailureText == "Assistant failed to respond. Please try again later."

NoQuiz == [active |-> FALSE, questions |-> <<>>, current |-> 0, score |-> 0]
NoUserData == [mode |-> "", quiz |-> NoQuiz]

HEvent(op, thread, role, content, ok) ==
    [op |-> op, thread |-> thread, role |-> role, content |-> content, ok |-> ok]

IdleHandler == [pc |-> "idle", kind |-> "", tg_user_id |-> 0, mode |-> "",
                thread_id |-> None, user_message |-> "", reply |-> "",
                events |-> <<>>, asked |-> "none", error |-> "",
                had_session |-> FALSE, created |-> {}, stored |-> {},
                quiz_before |-> NoQuiz]

\* the application takes the next update
Free == handler.pc \in {"idle", "done"}

NewHandler(kind, u, m, msg) ==
    [IdleHandler EXCEPT !.kind = kind, !.tg_user_id = u, !.mode = m,
                        !.user_message = msg, !.stored = handler.stored,
                        !.quiz_before = user_data[u].quiz]

\* decorators.py with_clean_keyboard, the wrapper up to the call of func:
\* when the previous mode is quiz the quiz progress is popped.
with_clean_keyboard_never(ud) == ud
with_clean_keyboard(ud) == IF ud.mode = "quiz" THEN [ud EXCEPT !.quiz = NoQuiz] ELSE ud

\* A decorated command that sets user_data["mode"]: the wrapper, then the
\* body.
DecoratedBodyFirst(ud, new_mode) == with_clean_keyboard([ud EXCEPT !.mode = new_mode])
Decorated(ud, new_mode) == [with_clean_keyboard(ud) EXCEPT !.mode = new_mode]

\* /start, /gpt (decorated) and /quiz: they set user_data["mode"].
ModeCommand(u, cmd) ==
    /\ Free
    /\ cmd \in {"start", "gpt", "quiz"}
    /\ user_data' = [user_data EXCEPT ![u] =
          CASE cmd = "start" -> Decorated(@, "")
            [] cmd = "gpt" -> Decorated(@, "gpt")
            [] cmd = "quiz" -> [@ EXCEPT !.mode = "quiz"]]
    /\ handler' = [NewHandler(cmd, u, "", "") EXCEPT !.pc = "done"]
    /\ UNCHANGED <<storeVars, threadsIssued, remoteThreads, resolver, remoteRun,
                   remoteMsgs, asker, quizzer, clientCall>>

\* thread_id = await get_or_create_thread_id(tg_user_id, mode, ...): the call
\* runs as resolver["r1"].
CallResolver(u, m) ==
    resolver' = [resolver EXCEPT !["r1"] =
        [IdleResolver EXCEPT !.pc = "get_thread_id", !.tg_user_id = u, !.mode = m,
                             !.seen = ReturnedFor(u, m)]]

\* The mode each handler passes on: gpt_message_handler and
\* handle_quiz_topic_selection pass user_data["mode"], which their first lines
\* have compared with their own mode; random and handle_quiz_answer name theirs.
HandlerModeAlwaysGpt(kind, user_mode) == "gpt"
HandlerModeAnswerGpt(kind, user_mode) ==
    CASE kind = "gpt_message_handler" -> user_mode
      [] kind = "random" -> "random"
      [] kind = "handle_quiz_topic_selection" -> user_mode
      [] kind = "handle_quiz_answer" -> "gpt"
HandlerMode(kind, user_mode) ==
    CASE kind = "gpt_message_handler" -> user_mode
      [] kind = "random" -> "random"
      [] kind = "handle_quiz_topic_selection" -> user_mode
      [] kind = "handle_quiz_answer" -> "quiz"

\* str.lower on the texts of the answers.
Lower(text) == IF text = "GET" THEN "get" ELSE text

\* quiz.py evaluate_answer
evaluate_answer(user_answer, correct_answer) ==
    LET is_correct == Lower(user_answer) = Lower(correct_answer) IN
    [feedback |-> IF is_correct THEN "Correct!" ELSE "Wrong! Correct: " \o correct_answer,
     is_correct |-> is_correct]

\* message_router: a text message goes to gpt_message_handler or
\* handle_quiz_answer by user_data["mode"]; with no mode the user is told to
\* pick from the menu.  handle_quiz_answer up to its first repository call:
\* no quiz_state, or questions[current]["answer"] (KeyError when the record
\* has no answer), evaluate_answer and quiz_state["score"] += 1.
TextMessage(u, text) ==
    LET ud == user_data[u]
        answering == ud.mode = "quiz" /\ ud.quiz.active
                     /\ "answer" \in ud.quiz.questions[ud.quiz.current + 1].keys
        e == evaluate_answer(text, ud.quiz.questions[ud.quiz.current + 1].answer)
    IN
    /\ Free
    /\ Len(gpt_messages) < MaxMessages
    /\ IF ud.mode = "gpt"
       THEN /\ handler' = [NewHandler("gpt_message_handler", u,
                                      HandlerMode("gpt_message_handler", ud.mode), text)
                              EXCEPT !.pc = "resolve"]
            /\ CallResolver(u, HandlerMode("gpt_message_handler", ud.mode))
       ELSE /\ UNCHANGED resolver
            /\ handler' =
                 LET h == NewHandler("handle_quiz_answer", u,
                                     HandlerMode("handle_quiz_answer", ud.mode), text) IN
                 IF ud.mode # "quiz"
                 THEN [NewHandler("message_router", u, "", text) EXCEPT
                         !.pc = "done",
                         !.events = <<HEvent("send", None, "",
                             "Please select an option from the menu to begin.", TRUE)>>]
                 ELSE IF ~ ud.quiz.active
                 THEN [h EXCEPT !.pc = "done",
                         !.events = <<HEvent("send", None, "",
                             "No active quiz found. Please select a quiz topic to start.", TRUE)>>]
                 ELSE IF "answer" \notin ud.quiz.questions[ud.quiz.current + 1].keys
                 THEN [h EXCEPT !.pc = "done", !.error = "KeyError"]
                 ELSE [h EXCEPT !.pc = "lookup", !.reply = e.feedback]
    /\ user_data' = IF answering /\ e.is_correct
                    THEN [user_data EXCEPT ![u].quiz.score = @ + 1]
                    ELSE user_data
    /\ UNCHANGED <<storeVars, threadsIssued, remoteThreads, remoteRun, remoteMsgs,
                   asker, quizzer, clientCall>>

\* /random or the random button: decorated; user_data["mode"] = None; then
\* the thread of mode random.
RandomCommand(u) ==
    /\ Free
    /\ Len(gpt_messages) < MaxMessages
    /\ user_data' = [user_data EXCEPT ![u] = Decorated(@, "")]
    /\ handler' = [NewHandler("random", u, HandlerMode("random", user_data[u].mode),
                              RandomPrompt) EXCEPT !.pc = "resolve"]
    /\ CallResolver(u, HandlerMode("random", user_data[u].mode))
    /\ UNCHANGED <<storeVars, threadsIssued, remoteThreads, remoteRun, remoteMsgs,
                   asker, quizzer, clientCall>>

\* A quiz topic button: handle_quiz_topic_selection returns at once unless
\* user_data["mode"] is quiz.
QuizTopicSelected(u) ==
    LET m == HandlerMode("handle_quiz_topic_selection", user_data[u].mode) IN
    /\ Free
    /\ Len(gpt_messages) < MaxMessages
    /\ IF user_data[u].mode # "quiz"
       THEN /\ handler' = [NewHandler("handle_quiz_topic_selection", u, "", "")
                              EXCEPT !.pc = "done"]
            /\ UNCHANGED resolver
       ELSE /\ handler' = [NewHandler("handle_quiz_topic_selection", u, m, QuizPrompt)
                              EXCEPT !.pc = "resolve"]
            /\ CallResolver(u, m)
    /\ UNCHANGED <<storeVars, threadsIssued, remoteThreads, remoteRun, remoteMsgs,
                   asker, quizzer, clientCall, user_data>>

\* get_or_create_thread_id has returned or raised; no handler catches what it
\* raises.
HandlerResolved ==
    LET c == resolver["r1"] IN
    /\ handler.pc = "resolve"
    /\ c.pc = "done"
    /\ handler' =
         IF c.result.kind = "raise"
         THEN [handler EXCEPT !.pc = "done", !.error = c.result.err]
         ELSE [handler EXCEPT !.pc = "add_user", !.thread_id = c.result.value,
                              !.had_session = ~ c.absent,
                              !.created = c.writes]
    /\ resolver' = [resolver EXCEPT !["r1"] = IdleResolver]
    /\ UNCHANGED <<storeVars, threadsIssued, remoteThreads, remoteRun, remoteMsgs,
                   asker, quizzer, clientCall, user_data>>

\* handle_quiz_answer:
\* thread_id = await thread_repo.get_thread_id(tg_user_id, SessionMode.QUIZ.value)
HandlerLookup ==
    /\ handler.pc = "lookup"
    /\ handler' = [handler EXCEPT !.pc = "add_user",
          !.thread_id = get_thread_id(gpt_sessions, handler.tg_user_id, handler.mode)]
    /\ UNCHANGED <<storeVars, threadsIssued, remoteThreads, resolver, remoteRun,
                   remoteMsgs, asker, quizzer, clientCall, user_data>>

\* One add_message of the handler, at time now, and the record of it.  No
\* handler reads created_at (none calls get_messages) and add_message's result
\* does not depend on it, so the handlers' inserts are taken one second apart;
\* inserts within one second are AddMessageCall's matter.
Stored(h, r) ==
    IF r.result.kind = "return"
    THEN h.stored \cup {[tg_user_id |-> h.tg_user_id, kind |-> h.kind,
                         thread |-> h.thread_id]}
    ELSE h.stored

\* await thread_repository.add_message(thread_id, role=USER, content=...)
HandlerAddUser(now) ==
    LET h == handler
        r == add_message(gpt_sessions, gpt_messages, h.thread_id, "user",
                         h.user_message, now)
        h1 == [h EXCEPT !.events = Append(@, HEvent("add_message", h.thread_id, "user",
                                                 h.user_message, r.result.kind = "return")),
                        !.stored = Stored(h, r)]
    IN
    /\ h.pc = "add_user"
    /\ now = clock + 1
    /\ clock' = now
    /\ gpt_messages' = r.table
    /\ handler' = IF r.result.kind = "raise"
                  THEN [h1 EXCEPT !.pc = "done", !.error = r.result.err]
                  ELSE [h1 EXCEPT !.pc = IF h.kind = "handle_quiz_answer"
                                         THEN "add_assistant" ELSE "ask"]
    /\ UNCHANGED <<gpt_sessions, storeCall, threadsIssued, remoteThreads, resolver,
                   remoteRun, remoteMsgs, asker, quizzer, clientCall, user_data>>

\* try: reply = await openai_client.ask(...)
\* except OpenAIError: reply_text("Assistant failed ..."); return
AfterAskStoresFailure(h, raised, text) ==
    [h EXCEPT !.pc = "add_assistant", !.reply = text,
              !.asked = IF raised THEN "raise" ELSE "return",
              !.events = Append(@, HEvent("ask", h.thread_id, "", h.user_message, ~ raised))]
AfterAskSendsOnly(h, raised, text) ==
    LET h1 == [h EXCEPT !.events =
                  Append(@, HEvent("ask", h.thread_id, "", h.user_message, ~ raised))] IN
    IF raised
    THEN [h1 EXCEPT !.pc = "done", !.asked = "raise",
                    !.events = Append(@, HEvent("send", None, "", FailureText, TRUE))]
    ELSE [h1 EXCEPT !.pc = "done", !.asked = "return", !.reply = text,
                    !.events = Append(@, HEvent("send", None, "", text, TRUE))]
AfterAsk(h, raised, text) ==
    LET h1 == [h EXCEPT !.events =
                  Append(@, HEvent("ask", h.thread_id, "", h.user_message, ~ raised))] IN
    IF raised
    THEN [h1 EXCEPT !.pc = "done", !.asked = "raise",
                    !.events = Append(@, HEvent("send", None, "", FailureText, TRUE))]
    ELSE [h1 EXCEPT !.pc = "add_assistant", !.asked = "return", !.reply = text]

\* The call of ask, taken by its outcome: it raises OpenAIError or returns a
\* reply, "" included.
HandlerAsk ==
    /\ handler.pc = "ask"
    /\ handler.kind \in {"gpt_message_handler", "random"}
    /\ \E raised \in BOOLEAN, text \in ReplyTexts \cup {""} :
         /\ raised => text = ""
         /\ handler' = AfterAsk(handler, raised, text)
    /\ UNCHANGED <<storeVars, threadsIssued, remoteThreads, resolver, remoteRun,
                   remoteMsgs, asker, quizzer, clientCall, user_data>>

\* handle_quiz_topic_selection, lines 64-94: ask_quiz_with_retries with its
\* default max_attempts = 2, taken by its outcome: a RuntimeError with one of
\* its three messages, or a reply the function accepts.  Then the quiz state
\* is set, quiz_data[0]["question"] and ["options"] are read (KeyError when the
\* record lacks them) and the question is sent.
HandlerAskQuiz ==
    LET h == handler IN
    /\ h.pc = "ask"
    /\ h.kind = "handle_quiz_topic_selection"
    /\ \/ \E cause \in {"openai", "json", "format"} :
            /\ handler' = [h EXCEPT !.pc = "done", !.asked = "raise",
                  !.events = @ \o <<HEvent("ask", h.thread_id, "", h.user_message, FALSE),
                                    HEvent("send", None, "", FailureMessage(cause), TRUE)>>]
            /\ UNCHANGED user_data
       \/ \E response \in {x \in QuizReplies : AttemptCause(x) = "ok"} :
            LET quiz_data == json_loads(response)
                h1 == [h EXCEPT !.asked = "return", !.reply = response,
                          !.events = Append(@, HEvent("ask", h.thread_id, "",
                                                      h.user_message, TRUE))]
            IN
            /\ user_data' = [user_data EXCEPT ![h.tg_user_id].quiz =
                   [active |-> TRUE, questions |-> quiz_data.items, current |-> 0,
                    score |-> 0]]
            /\ handler' =
                 IF {"question", "options"} \subseteq quiz_data.items[1].keys
                 THEN [h1 EXCEPT !.pc = "add_assistant",
                          !.events = Append(@, HEvent("send", None, "", "Question 1", TRUE))]
                 ELSE [h1 EXCEPT !.pc = "done", !.error = "KeyError"]
    /\ UNCHANGED <<storeVars, threadsIssued, remoteThreads, resolver, remoteRun,
                   remoteMsgs, asker, quizzer, clientCall>>

\* await thread_repository.add_message(thread_id, role=ASSISTANT, content=reply)
\* and what follows it: the reply is sent (gpt_message_handler, random); the
\* quiz moves to its next question or ends (handle_quiz_answer).
HandlerAddAssistant(now) ==
    LET h == handler
        r == add_message(gpt_sessions, gpt_messages, h.thread_id, "assistant",
                         h.reply, now)
        h1 == [h EXCEPT !.events = Append(@, HEvent("add_message", h.thread_id,
                                    "assistant", h.reply, r.result.kind = "return")),
                        !.stored = Stored(h, r)]
        ok == r.result.kind = "return"
        q == user_data[h.tg_user_id].quiz
    IN
    /\ h.pc = "add_assistant"
    /\ now = clock + 1
    /\ clock' = now
    /\ gpt_messages' = r.table
    /\ handler' =
         IF ~ ok THEN [h1 EXCEPT !.pc = "done", !.error = r.result.err]
         ELSE IF h.kind = "handle_quiz_topic_selection" THEN [h1 EXCEPT !.pc = "done"]
         ELSE [h1 EXCEPT !.pc = "done",
                         !.events = Append(@, HEvent("send", None, "", h.reply, TRUE))]
    /\ user_data' =
         IF ok /\ h.kind = "handle_quiz_answer"
         THEN [user_data EXCEPT ![h.tg_user_id].quiz =
                  IF q.current + 1 < Len(q.questions)
                  THEN [q EXCEPT !.current = @ + 1] ELSE NoQuiz]
         ELSE user_data
    /\ UNCHANGED <<gpt_sessions, storeCall, threadsIssued, remoteThreads, resolver,
                   remoteRun, remoteMsgs, asker, quizzer, clientCall>>

\* ========================================================== specifications
Init ==
    /\ gpt_sessions = {}
    /\ gpt_messages = <<>>
    /\ storeCall = NoCall
    /\ threadsIssued = 0
    /\ resolver = [p \in ResolveCalls |-> IdleResolver]
    /\ remoteRun = [t \in AskThread |-> NoRun]
    /\ remoteMsgs = [t \in AskThread |-> <<>>]
    /\ asker = [p \in AskCalls |-> IdleAsker]
    /\ quizzer = [q \in QuizCalls |-> IdleQuizzer]
    /\ clock = 0
    /\ remoteThreads = 1..threadsIssued
    /\ clientCall = NoClientCall
    /\ handler = IdleHandler
    /\ user_data = [u \in BotUsers |-> NoUserData]

NextStore ==
    \/ \E u \in Users, m \in CallModes : GetThreadIdCall(u, m)
    \/ \E u \in Users, m \in CallModes, t \in {None} \cup ThreadIds :
          CreateThreadCall(u, m, t)

SpecStore == Init /\ [][NextStore]_vars

NextResolve ==
    \/ \E p \in ResolveCalls, u \in Users, m \in Modes : StartResolve(p, u, m)
    \/ \E p \in ResolveCalls : ResolveLookup(p)
    \/ \E p \in ResolveCalls : ResolveRemoteCreate(p)
    \/ \E p \in ResolveCalls : ResolveInsert(p)

SpecResolve == Init /\ [][NextResolve]_vars

\* One call of ask on a thread that may hold earlier messages and an earlier
\* run in any state (an earlier call interrupted while its run was going).
InitAsk ==
    /\ gpt_sessions = {}
    /\ gpt_messages = <<>>
    /\ storeCall = NoCall
    /\ threadsIssued = 1
    /\ resolver = [p \in ResolveCalls |-> IdleResolver]
    /\ remoteRun \in [AskThread -> {NoRun} \cup
           {[id |-> 1, status |-> o.status, code |-> o.code] : o \in RunObservations}]
    /\ remoteMsgs \in [AskThread -> InitialHistories]
    /\ asker = [p \in AskCalls |-> IdleAsker]
    /\ quizzer = [q \in QuizCalls |-> IdleQuizzer]
    /\ clock = 0
    /\ remoteThreads = 1..threadsIssued
    /\ clientCall = NoClientCall
    /\ handler = IdleHandler
    /\ user_data = [u \in BotUsers |-> NoUserData]

NextAsk ==
    \/ \E p \in AskCalls, t \in AskThread, n \in 0..MaxRetriesInput : StartAsk(p, t, "hello", n)
    \/ \E p \in AskCalls : AskRunsList(p)
    \/ \E p \in AskCalls : AskDrainPoll(p)
    \/ \E p \in AskCalls : AskPostMessage(p)
    \/ \E p \in AskCalls : AskRunCreate(p)
    \/ \E p \in AskCalls : AskRunPoll(p)
    \/ \E p \in AskCalls : AskBackoff(p)
    \/ \E p \in AskCalls : AskMessagesList(p)

SpecAsk == InitAsk /\ [][NextAsk]_vars

\* The message log: sessions are created (user t has thread t), messages
\* added and read back.
NextMessages ==
    \/ \E t \in MessageThreads : CreateThreadCall(t, "gpt", t)
    \/ \E t \in {None} \cup MessageThreads, role \in RoleInputs, content \in ContentInputs,
          now \in 0..MaxMessages : AddMessageCall(t, role, content, now)
    \/ \E t \in MessageThreads : GetMessagesCall(t)
    \/ \E t \in MessageThreads : ClearThreadCall(t)

SpecMessages == Init /\ [][NextMessages]_vars

\* The message log with sessions deleted by hand: the connection that deletes
\* has foreign keys on, or off as the connections of add_message and
\* clear_thread have.
NextCascade ==
    \/ \E t \in MessageThreads : CreateThreadCall(t, "gpt", t)
    \/ \E t \in MessageThreads, role \in {"user", "assistant"}, content \in ContentInputs,
          now \in 0..MaxMessages : AddMessageCall(t, role, content, now)
    \/ \E t \in MessageThreads, fk \in {ForeignKeys, TRUE} : DeleteSessionStatement(t, fk)

SpecCascade == Init /\ [][NextCascade]_vars

\* One call of ask_quiz_with_retries, with every max_attempts up to the bound
\* and every sequence of outcomes of ask.
NextQuiz ==
    \/ \E q \in QuizCalls, n \in 0..MaxAttemptsInput : StartQuiz(q, n)
    \/ \E q \in QuizCalls : QuizAttempt(q)

SpecQuiz == Init /\ [][NextQuiz]_vars

\* The bot: updates of two users, handled one after the other.
NextBot ==
    \/ \E u \in BotUsers, cmd \in {"start", "gpt", "quiz"} : ModeCommand(u, cmd)
    \/ \E u \in BotUsers :
          \E text \in IF user_data[u].mode = "quiz" THEN AnswerTexts ELSE {GptText} :
              TextMessage(u, text)
    \/ \E u \in BotUsers : RandomCommand(u)
    \/ \E u \in BotUsers : QuizTopicSelected(u)
    \/ ResolveLookup("r1")
    \/ ResolveRemoteCreate("r1")
    \/ ResolveInsert("r1")
    \/ HandlerResolved
    \/ HandlerLookup
    \/ \E now \in 0..(2 * MaxMessages) : HandlerAddUser(now)
    \/ HandlerAsk
    \/ HandlerAskQuiz
    \/ \E now \in 0..(2 * MaxMessages) : HandlerAddAssistant(now)

SpecBot == Init /\ [][NextBot]_vars

\* The thread calls of OpenAIClient, in any order.
NextClient ==
    \/ ClientCreateThreadCall
    \/ \E t \in ThreadIds : ClientRetrieveThreadCall(t)
    \/ \E t \in ThreadIds : ClientDeleteThreadCall(t)

SpecClient == Init /\ [][NextClient]_vars

\* One call of ask against a remote service whose runs may stay queued or in
\* progress for ever.  The asyncio loop resumes the coroutine after every
\* sleep and every answer of the service, so the call's next step is always
\* taken (weak fairness); nothing is assumed of the remote service.
NextAskLive ==
    \/ \E p \in AskCalls, t \in AskThread, n \in 1..2 : StartAsk(p, t, "hello", n)
    \/ \E p \in AskCalls : AskRunsList(p)
    \/ \E p \in AskCalls : AskDrainPoll(p)
    \/ \E p \in AskCalls : AskDrainSpin(p)
    \/ \E p \in AskCalls : AskPostMessage(p)
    \/ \E p \in AskCalls : AskRunCreate(p)
    \/ \E p \in AskCalls : AskRunPoll(p)
    \/ \E p \in AskCalls : AskRunSpin(p)
    \/ \E p \in AskCalls : AskBackoff(p)
    \/ \E p \in AskCalls : AskMessagesList(p)

SpecAskLive == InitAsk /\ [][NextAskLive]_vars /\ WF_vars(NextAskLive)

\* Two calls of ask at once, on different threads: the handlers of two users
\* (or of two modes of one user) suspended at their awaits.  Thread 2 may hold
\* a run left queued by an earlier call.
PairCalls == {"a1", "a2"}
PairThread(p) == IF p = "a1" THEN 1 ELSE 2
PairMessage(p) == IF p = "a1" THEN "hello" ELSE "hi"
PairRetries(p) == IF p = "a1" THEN {1, 2} ELSE {1}

InitPair ==
    /\ gpt_sessions = {}
    /\ gpt_messages = <<>>
    /\ storeCall = NoCall
    /\ threadsIssued = 2
    /\ resolver = [p \in ResolveCalls |-> IdleResolver]
    /\ remoteRun \in {[t \in {PairThread(p) : p \in PairCalls} |->
                         IF t = 2 THEN r ELSE NoRun] :
                      r \in {NoRun, [id |-> 1, status |-> "queued", code |-> ""]}}
    /\ remoteMsgs = [t \in {PairThread(p) : p \in PairCalls} |-> <<>>]
    /\ asker = [p \in PairCalls |-> IdleAsker]
    /\ quizzer = [q \in QuizCalls |-> IdleQuizzer]
    /\ clock = 0
    /\ remoteThreads = 1..threadsIssued
    /\ clientCall = NoClientCall
    /\ handler = IdleHandler
    /\ user_data = [u \in BotUsers |-> NoUserData]

NextPair ==
    \/ \E p \in PairCalls : \E n \in PairRetries(p) :
          StartAsk(p, PairThread(p), PairMessage(p), n)
    \/ \E p \in PairCalls : AskRunsList(p)
    \/ \E p \in PairCalls : AskDrainPoll(p)
    \/ \E p \in PairCalls : AskPostMessage(p)
    \/ \E p \in PairCalls : AskRunCreate(p)
    \/ \E p \in PairCalls : AskRunPoll(p)
    \/ \E p \in PairCalls : AskBackoff(p)
    \/ \E p \in PairCalls : AskMessagesList(p)

SpecPair == InitPair /\ [][NextPair]_vars

\* ================================================================== claims
HasCreate(c, ok) ==
    \E i \in DOMAIN c.calls : c.calls[i].op = "create_thread" /\ c.calls[i].ok = ok

\* C1: once a call of get_or_create_thread_id for (user, mode) has returned
\* thread id t, a call for the same pair that starts afterwards returns t and
\* never calls the remote create_thread.
C1_IdempotentResolve ==
    \A p \in ResolveCalls :
        LET c == resolver[p] IN
        c.seen # {} =>
            /\ c.calls = <<>>
            /\ c.pc \in {"get_thread_id", "done"}
            /\ c.pc = "done" =>
                  /\ c.result.kind = "return"
                  /\ c.seen = {c.result.value}

C1_Witness ==
    \E p \in ResolveCalls :
        /\ resolver[p].seen # {}
        /\ resolver[p].pc = "done"
        /\ resolver[p].result.kind = "return"

\* C2: over every interleaving of resolver calls, overlapping ones included,
\* at most one remote thread is created per (user, mode).
C2_CreatedOncePerPair ==
    \A u \in Users, m \in Modes :
        Cardinality({p \in ResolveCalls :
            /\ resolver[p].tg_user_id = u /\ resolver[p].mode = m
            /\ HasCreate(resolver[p], TRUE)}) <= 1

\* C3: create_thread for a (user, mode) that has a session, or with a thread
\* id another session uses, raises the integrity error and leaves gpt_sessions
\* as it was; the table never holds two rows for one (user, mode) nor two rows
\* with one thread id.
C3_UniqueSessions ==
    /\ \A r1 \in gpt_sessions, r2 \in gpt_sessions :
          \/ r1 = r2
          \/ /\ ~(r1.tg_user_id = r2.tg_user_id /\ r1.mode = r2.mode)
             /\ r1.openai_thread_id # r2.openai_thread_id
    /\ storeCall.op = "create_thread" =>
          LET taken == \E r \in storeCall.before :
                          \/ /\ r.tg_user_id = storeCall.tg_user_id
                             /\ r.mode = storeCall.mode
                          \/ r.openai_thread_id = storeCall.openai_thread_id
          IN  taken => /\ storeCall.result = Raise("IntegrityError")
                       /\ gpt_sessions = storeCall.before

C3_Witness ==
    /\ storeCall.op = "create_thread"
    /\ storeCall.result.kind = "raise"
    /\ \E r \in storeCall.before :
          /\ r.openai_thread_id = storeCall.openai_thread_id
          /\ r.tg_user_id # storeCall.tg_user_id
    /\ ~\E r \in storeCall.before :
          r.tg_user_id = storeCall.tg_user_id /\ r.mode = storeCall.mode

\* C4: a resolver call whose remote create_thread failed ends by raising the
\* OpenAIError and has written no row: the store holds no session row and no
\* message row of that call.
C4_RemoteFailureWritesNothing ==
    /\ gpt_messages = <<>>
    /\ \A p \in ResolveCalls :
          LET c == resolver[p] IN
          HasCreate(c, FALSE) =>
              /\ c.pc = "done"
              /\ c.result = Raise("OpenAIError")
              /\ c.writes = {}
              /\ c.thread_id = None
              /\ ~\E r \in gpt_sessions : r.openai_thread_id = None

C4_Witness ==
    \E p \in ResolveCalls :
        /\ HasCreate(resolver[p], FALSE)
        /\ resolver[p].pc = "done"
        /\ \E q \in ResolveCalls \ {p} : resolver[q].writes # {}

\* C5: the calls for one (user, mode) that all saw no session and all created
\* a remote thread: exactly one of them inserts its row and returns; each
\* other ends with the integrity error, its remote thread is in no session
\* row, and it issues no delete_thread.
Racers(u, m) ==
    {p \in ResolveCalls :
        /\ resolver[p].tg_user_id = u /\ resolver[p].mode = m
        /\ resolver[p].absent
        /\ resolver[p].pc = "done"
        /\ HasCreate(resolver[p], TRUE)}

C5_RaceLoserOrphan ==
    /\ \A p \in ResolveCalls :
          LET c == resolver[p] IN
          (c.absent /\ c.pc \in {"insert", "done"}) =>
              /\ Len(c.calls) = 1
              /\ c.calls[1].op = "create_thread"
    /\ \A u \in Users, m \in Modes :
          LET S == Racers(u, m) IN
          S # {} =>
              /\ Cardinality({p \in S : resolver[p].result.kind = "return"}) = 1
              /\ \A p \in S :
                    LET c == resolver[p] IN
                    IF c.result.kind = "return"
                    THEN /\ c.result.value = c.thread_id
                         /\ SessionRow(u, m, c.thread_id) \in gpt_sessions
                    ELSE /\ c.result = Raise("IntegrityError")
                         /\ ~\E r \in gpt_sessions : r.openai_thread_id = c.thread_id
                         /\ ~\E i \in DOMAIN c.calls : c.calls[i].op = "delete_thread"

C5_Witness ==
    \E u \in Users, m \in Modes :
        \E p \in Racers(u, m), q \in Racers(u, m) :
            /\ resolver[p].result.kind = "return"
            /\ resolver[q].result = Raise("IntegrityError")
            /\ resolver[q].thread_id \notin {None, resolver[p].thread_id}

\* ------------------------------------------------------------ ask claims
RunStarts(c) == Cardinality({i \in DOMAIN c.calls : c.calls[i].op = "runs.create"})
Transient(o) == o.status = "failed" /\ o.code = "server_error"
NonTransient(o) == o.status = "failed" /\ o.code # "server_error"
Observation(e) == e.op \in {"runs.create", "runs.retrieve"} /\ e.status # "error"

\* every run the call has started and seen end failed with server_error
AllTransient(c) ==
    /\ c.max_retries >= 1
    /\ \A k \in DOMAIN c.outcomes : Transient(c.outcomes[k])

\* the runs of the call failed with server_error on every attempt but the
\* last of max_retries, and the last completed
FailThenComplete(c) ==
    /\ c.max_retries >= 1
    /\ Len(c.outcomes) = c.max_retries
    /\ \A k \in 1..c.max_retries :
          IF k < c.max_retries THEN Transient(c.outcomes[k])
          ELSE c.outcomes[k].status = "completed"

\* C6: when the first max_retries - 1 runs of a call fail with server_error
\* and run max_retries completes, ask has started exactly max_retries runs
\* and returns the reply (unless the final messages.list call itself fails);
\* on the way, a server_error failure before attempt max_retries never makes
\* the call raise or return.
C6_RetryThenSuccess ==
    \A p \in AskCalls :
        LET c == asker[p] IN
        /\ (AllTransient(c) /\ Len(c.outcomes) < c.max_retries) =>
              /\ c.result.kind # "return"
              /\ c.result.cause # "run_failed"
              /\ RunStarts(c) \in {Len(c.outcomes), Len(c.outcomes) + 1}
        /\ FailThenComplete(c) =>
              /\ RunStarts(c) = c.max_retries
              /\ c.pc \in {"messages_list", "done"}
              /\ c.pc = "done" =>
                    \/ c.result.kind = "return"
                    \/ c.result = AskRaise("api_error", "messages.list")

C6_Witness ==
    \E p \in AskCalls :
        /\ FailThenComplete(asker[p])
        /\ asker[p].max_retries = 3
        /\ asker[p].pc = "done"
        /\ asker[p].result = AskReturn("hi there")

\* C7: when every run a call started has failed with server_error, ask
\* returns nothing; it raises for the run failure exactly when max_retries
\* runs have been started and have failed, never after fewer or more.
C7_RetryExhausted ==
    \A p \in AskCalls :
        LET c == asker[p] IN
        AllTransient(c) =>
            /\ c.result.kind # "return"
            /\ RunStarts(c) <= c.max_retries
            /\ c.result.cause = "run_failed" =>
                  /\ RunStarts(c) = c.max_retries
                  /\ Len(c.outcomes) = c.max_retries
                  /\ c.result.value = ""
            /\ Len(c.outcomes) = c.max_retries =>
                  /\ c.pc = "done"
                  /\ c.result = AskRaise("run_failed", "server_error")
                  /\ RunStarts(c) = c.max_retries

C7_Witness ==
    \E p \in AskCalls :
        /\ AllTransient(asker[p])
        /\ asker[p].max_retries = 3
        /\ Len(asker[p].outcomes) = 3
        /\ asker[p].result.kind = "raise"

\* C8: a run that failed with a code other than server_error ends the call
\* at once: ask raises with that code as detail, the observation of the
\* failure is the last thing the call did (no further run, no backoff sleep).
C8_ClientErrorRaisesAtOnce ==
    \A p \in AskCalls :
        LET c == asker[p] IN
        \A k \in DOMAIN c.outcomes :
            NonTransient(c.outcomes[k]) =>
                /\ k = Len(c.outcomes)
                /\ c.pc = "done"
                /\ c.result = AskRaise("run_failed", c.outcomes[k].code)
                /\ RunStarts(c) = k
                /\ LET last == c.calls[Len(c.calls)] IN
                      /\ Observation(last)
                      /\ last.run = k
                      /\ last.status = "failed"
                      /\ last.code = c.outcomes[k].code

C8_Witness ==
    \E p \in AskCalls :
        LET c == asker[p] IN
        /\ c.max_retries = 3
        /\ Len(c.outcomes) = 2
        /\ Transient(c.outcomes[1])
        /\ NonTransient(c.outcomes[2])
        /\ c.pc = "done"

\* C9: the sleep between the server_error failure of attempt k and the start
\* of attempt k + 1 is 2^k seconds and is the only thing between them; a
\* backoff sleep follows nothing but such a failure with attempts left, so a
\* call sleeps at most max_retries - 1 times for backoff.
RECURSIVE Pow2(_)
Pow2(k) == IF k = 0 THEN 1 ELSE 2 * Pow2(k - 1)

Backoffs(c) == {i \in DOMAIN c.calls : c.calls[i].op = "sleep(backoff)"}

C9_ExponentialBackoff ==
    \A p \in AskCalls :
        LET c == asker[p] IN
        /\ \A i \in Backoffs(c) :
              LET e == c.calls[i] IN
              /\ e.secs = Pow2(e.run)
              /\ e.run >= 1 /\ e.run < c.max_retries
              /\ i > 1
              /\ Observation(c.calls[i - 1])
              /\ c.calls[i - 1].run = e.run
              /\ c.calls[i - 1].status = "failed"
              /\ c.calls[i - 1].code = "server_error"
              /\ i < Len(c.calls) =>
                    /\ c.calls[i + 1].op = "runs.create"
                    /\ c.calls[i + 1].run = e.run + 1
        /\ \A i \in DOMAIN c.calls :
              (c.calls[i].op = "runs.create" /\ c.calls[i].run >= 2) =>
                  LET prev == c.calls[i - 1] IN
                  /\ prev.run = c.calls[i].run - 1
                  /\ \/ prev.op = "sleep(backoff)"
                     \/ /\ Observation(prev)
                        /\ prev.status \notin {"queued", "in_progress", "completed", "failed"}
        /\ Cardinality(Backoffs(c)) <= IF c.max_retries >= 1 THEN c.max_retries - 1 ELSE 0
        /\ c.pc = "backoff" => Transient(c.outcomes[Len(c.outcomes)])

C9_Witness ==
    \E p \in AskCalls :
        LET c == asker[p] IN
        /\ \E i \in Backoffs(c) : c.calls[i].run = 1 /\ c.calls[i].secs = 2
        /\ \E i \in Backoffs(c) : c.calls[i].run = 2 /\ c.calls[i].secs = 4
        /\ c.pc = "done"

\* C10: when the latest run of the thread is queued or in progress as ask
\* starts, the user message is posted only after a retrieve of that run has
\* observed a terminal status, and that retrieve is the last one of that run.
PriorPolls(c) ==
    {i \in DOMAIN c.calls : c.calls[i].op = "runs.retrieve" /\ c.calls[i].run = 0}

StartedOnActiveRun(c) ==
    /\ Len(c.calls) >= 1
    /\ c.calls[1].op = "runs.list"
    /\ c.calls[1].status \in {"queued", "in_progress"}

C10_DrainBeforeSend ==
    \A p \in AskCalls :
        LET c == asker[p] IN
        StartedOnActiveRun(c) =>
            \A j \in DOMAIN c.calls :
                c.calls[j].op = "messages.create" =>
                    \E i \in PriorPolls(c) :
                        /\ i < j
                        /\ c.calls[i].status \notin {"queued", "in_progress", "error"}
                        /\ \A h \in PriorPolls(c) :
                              /\ h <= i
                              /\ h < i => c.calls[h].status \in {"queued", "in_progress"}

C10_Witness ==
    \E p \in AskCalls :
        LET c == asker[p] IN
        /\ StartedOnActiveRun(c)
        /\ c.calls[1].status = "in_progress"
        /\ c.polls >= 1
        /\ \E j \in DOMAIN c.calls :
              c.calls[j].op = "messages.create" /\ c.calls[j].status # "error"

\* C11: when a retrieve of the prior run, found queued or in progress, observes
\* failed, ask raises at once (Previous run failed): that retrieve is the last
\* thing the call does, no message is posted and no run is started.
Posted(c) == \E j \in DOMAIN c.calls : c.calls[j].op = "messages.create"

C11_DrainedFailureAborts ==
    \A p \in AskCalls :
        LET c == asker[p] IN
        \A i \in PriorPolls(c) :
            c.calls[i].status = "failed" =>
                /\ i = Len(c.calls)
                /\ c.pc = "done"
                /\ c.result = AskRaise("previous_run_failed", c.calls[i].code)
                /\ ~Posted(c)
                /\ RunStarts(c) = 0

C11_Witness ==
    \E p \in AskCalls :
        LET c == asker[p] IN
        /\ c.pc = "done"
        /\ c.result.cause = "previous_run_failed"
        /\ c.calls[1].status = "queued"

\* C12 as stated: whenever the prior run is failed at the end of the drain
\* phase, already failed at the first inspection or failed while polled, the
\* call posts no message and starts no run.
C12_NoPostAfterFailedRun ==
    \A p \in AskCalls :
        LET c == asker[p] IN
        (c.pc # "runs_list" /\ c.latest_run.status = "failed") =>
            /\ ~Posted(c)
            /\ RunStarts(c) = 0

\* C12 as amended: a call that posts the message or starts a run although the
\* prior run is failed found that run already failed at its first inspection
\* and never polled it; such a call is not stopped by the drain phase.  A
\* prior run that failed while being polled always stops the call.
C12_NoPostAfterFailureWhilePolled ==
    \A p \in AskCalls :
        LET c == asker[p] IN
        /\ (c.latest_run.status = "failed" /\ (Posted(c) \/ RunStarts(c) > 0)) =>
              /\ c.calls[1].op = "runs.list"
              /\ c.calls[1].status = "failed"
              /\ PriorPolls(c) = {}
        /\ (c.latest_run.status = "failed" /\ c.pc # "runs_list" /\ PriorPolls(c) = {}) =>
              /\ c.result.cause # "previous_run_failed"
              /\ c.pc # "drain"

C12_Witness ==
    \E p \in AskCalls :
        LET c == asker[p] IN
        /\ c.latest_run.status = "failed"
        /\ PriorPolls(c) = {}
        /\ Posted(c)
        /\ RunStarts(c) > 0

\* C13: a reply that ask returns is the text of the newest message of role
\* assistant in the remote thread, whatever the thread held before the call.
AssistantIndexes(msgs) == {i \in DOMAIN msgs : msgs[i].role = "assistant"}

C14_NoAssistantMessageGivesEmpty ==
    \A p \in AskCalls :
        LET c == asker[p] IN
        (/\ c.pc = "done"
         /\ c.outcomes # <<>>
         /\ c.outcomes[Len(c.outcomes)].status = "completed"
         /\ AssistantIndexes(remoteMsgs[c.thread_id]) = {}) =>
            \/ c.result = AskReturn("")
            \/ c.result = AskRaise("api_error", "messages.list")

C14_Witness ==
    \E p \in AskCalls :
        LET c == asker[p] IN
        /\ c.result = AskReturn("")
        /\ c.outcomes # <<>>
        /\ c.outcomes[Len(c.outcomes)].status = "completed"
        /\ remoteMsgs[c.thread_id] # <<>>

\* C15: a call of ask never polls for ever: when the run it polls (the prior
\* run, or a run it started) stays queued or in progress, the call still
\* leaves its poll loop (to raise a timed-out error).
C15_PollingEnds ==
    \A p \in AskCalls : []<>(asker[p].pc \notin {"drain", "run_poll"})

\* ------------------------------------------------ claims on the quiz retry
\* What C16 and C18 call a valid outcome of an attempt: ask returned a reply
\* that parses to a non-empty list of records with the required fields.
ValidOutcome(outcome) ==
    /\ outcome # OpenAIError
    /\ HasRequiredFields(json_loads(outcome))

\* C16: for max_attempts >= 1, ask_quiz_with_retries calls ask once per
\* attempt until the first valid outcome or until max_attempts calls; with no
\* valid attempt it raises after exactly max_attempts calls and returns
\* nothing; it returns only from an attempt whose reply has a valid shape.
C16_AttemptsUntilFirstValid ==
    \A q \in QuizCalls :
        LET c == quizzer[q]
            n == Len(c.outcomes)
        IN c.max_attempts >= 1 =>
            /\ n <= c.max_attempts
            /\ \A i \in 1..n : ValidOutcome(c.outcomes[i]) => (i = n /\ c.pc = "done")
            /\ (c.pc = "ask") => (c.attempt = n + 1)
            /\ (c.pc = "done") =>
                  IF ValidOutcome(c.outcomes[n])
                  THEN c.result = QuizReturn(c.outcomes[n], json_loads(c.outcomes[n]))
                  ELSE /\ n = c.max_attempts
                       /\ c.result.kind = "raise"
                       /\ c.result.quiz_data = JSONDecodeError

\* C17: when the attempts are used up the call raises exactly one
\* RuntimeError, and its message names the cause seen on the last attempt.
C17_RaisesLastCause ==
    \A q \in QuizCalls :
        LET c == quizzer[q]
            n == Len(c.outcomes)
        IN (c.pc = "done" /\ n >= 1 /\ AttemptCause(c.outcomes[n]) # "ok") =>
            /\ n = c.max_attempts
            /\ c.result.kind = "raise"
            /\ Len(c.raised) = 1
            /\ c.raised[1] = c.result.message
            /\ c.result.message =
                  CASE c.outcomes[n] = OpenAIError ->
                          "Failed to generate quiz due to OpenAI error."
                    [] c.outcomes[n] \in {"", "Sorry, I cannot do that."} ->
                          "Received invalid JSON format for quiz."
                    [] OTHER -> "Quiz data is invalid or empty."

\* The last attempt failed on the shape after an earlier one failed on the
\* remote call and another on the JSON.
C17_Witness ==
    \E q \in QuizCalls :
        LET c == quizzer[q] IN
        /\ c.pc = "done"
        /\ c.outcomes = <<OpenAIError, "Sorry, I cannot do that.", "[]">>
        /\ c.result = QuizRaise("Quiz data is invalid or empty.")

\* C18: a reply is returned only if it parses to a non-empty list of records
\* that carry question, options and answer; any other reply is never returned.
C18_ReturnsOnlyRecordsWithFields ==
    \A q \in QuizCalls :
        quizzer[q].result.kind = "return" =>
            /\ json_loads(quizzer[q].result.response) = quizzer[q].result.quiz_data
            /\ HasRequiredFields(quizzer[q].result.quiz_data)

\* ------------------------------------------------ claims on the message log
\* C19: add_message with a thread id that belongs to no session raises and
\* writes no row, so every stored message's thread id is the
\* openai_thread_id of a session.
C19_MessagesReferenceSessions ==
    /\ \A i \in 1..Len(gpt_messages) :
          \E r \in gpt_sessions : r.openai_thread_id = gpt_messages[i].openai_thread_id
    /\ (storeCall.op = "add_message"
          /\ ~ \E r \in storeCall.before : r.openai_thread_id = storeCall.openai_thread_id)
        => storeCall.result.kind = "raise"

\* C20: get_messages(thread) returns exactly the messages added for that
\* thread, none of another thread's, in the order they were added, also when
\* several of them carry the same created_at.
C20_InsertionOrder ==
    storeCall.op = "get_messages" =>
        storeCall.rows = AsDicts(ThreadRows(gpt_messages, storeCall.openai_thread_id))

C22_ClearThread ==
    storeCall.op = "clear_thread" =>
        LET t == storeCall.openai_thread_id IN
        /\ storeCall.result = Return(None)
        /\ ThreadRows(gpt_messages, t) = <<>>
        /\ \A o \in (MessageThreads \cup {None}) \ {t} :
              ThreadRows(gpt_messages, o) = ThreadRows(storeCall.log, o)
        /\ Len(gpt_messages) = Len(storeCall.log) - Len(ThreadRows(storeCall.log, t))
        /\ ThreadRows(storeCall.log, t) = <<>> => gpt_messages = storeCall.log
        /\ gpt_sessions = storeCall.before

\* clear_thread emptied a thread that had messages while the other thread
\* had some too, both threads having a session.
C22_Witness ==
    /\ storeCall.op = "clear_thread"
    /\ ThreadRows(storeCall.log, storeCall.openai_thread_id) # <<>>
    /\ gpt_messages # <<>>
    /\ Cardinality(gpt_sessions) = 2

\* C24: the log only grows and its rows never change: a step that is not a
\* clear_thread keeps the stored rows as a prefix, and of two reads of a
\* thread one after the other the later returns the earlier as a prefix.
IsPrefix(s, t) == Len(s) <= Len(t) /\ SubSeq(t, 1, Len(s)) = s

C24_AppendOnly ==
    [][storeCall'.op # "clear_thread" =>
         /\ IsPrefix(gpt_messages, gpt_messages')
         /\ (/\ storeCall.op = "get_messages"
             /\ storeCall'.op = "get_messages"
             /\ storeCall'.openai_thread_id = storeCall.openai_thread_id)
            => IsPrefix(storeCall.rows, storeCall'.rows)]_vars

\* C23: a session is never updated: a pair (user, mode) mapped to thread t
\* in gpt_sessions is mapped to t after every later step, and to nothing else.
C23_SessionNeverUpdated ==
    [][\A r \in gpt_sessions :
         /\ r \in gpt_sessions'
         /\ get_thread_id(gpt_sessions', r.tg_user_id, r.mode) = r.openai_thread_id]_vars

\* A call lost the race for a pair, its insert was refused, and a later call
\* for the pair found the winner's thread by lookup.
C23_Witness ==
    \E p, q \in ResolveCalls :
        /\ resolver[p].result = Raise("IntegrityError")
        /\ resolver[q].result.kind = "return"
        /\ ~ resolver[q].absent
        /\ resolver[q].tg_user_id = resolver[p].tg_user_id
        /\ resolver[q].mode = resolver[p].mode
        /\ SessionRow(resolver[q].tg_user_id, resolver[q].mode, resolver[q].result.value)
              \in gpt_sessions

\* ------------------------------------------------ claims on remote failures
\* C27: no remote failure becomes a normal return value: when the remote
\* service fails inside create_thread, delete_thread or ask the caller gets
\* an error.  (The one silent default, the empty reply of ask after a
\* completed run without assistant message, is not a remote failure.)
C27_RemoteFailureRaises ==
    /\ (clientCall.op \in {"create_thread", "delete_thread"} /\ ~ clientCall.remote_ok)
          => clientCall.result.kind = "raise"
    /\ \A p \in AskCalls :
          (\E i \in 1..Len(asker[p].calls) : asker[p].calls[i].status = "error")
              => asker[p].result.kind = "raise"

\* ------------------------------------------------------ claims on progress
\* Every run ends: again and again the thread's run is in a terminal state or
\* no call is waiting for it.
RunsReachTerminal ==
    []<>(\A p \in AskCalls :
            \/ asker[p].pc \notin {"drain", "run_poll"}
            \/ ~ RunActive(remoteRun[asker[p].thread_id].status))

\* C29: if every remote call returns and every run ends, every call of ask
\* with max_retries >= 1 returns a reply or raises, and it has started at
\* most max_retries runs.
C29_AskTerminates ==
    RunsReachTerminal =>
        \A p \in AskCalls :
            /\ (asker[p].pc # "idle") ~>
                   (asker[p].pc = "done" /\ asker[p].result.kind \in {"return", "raise"})
            /\ [](RunStarts(asker[p]) <= asker[p].max_retries)

\* A call that waited for its run past the recorded polls, retried, and
\* came to an end with two runs started.
C29_Witness ==
    \E p \in AskCalls :
        /\ asker[p].pc = "done"
        /\ asker[p].spin = 1
        /\ asker[p].max_retries = 2
        /\ RunStarts(asker[p]) = 2

\* ------------------------------------------------- claims on the handlers
Adds(h) == SelectSeq(h.events, LAMBDA e : e.op = "add_message")
Sends(h) == SelectSeq(h.events, LAMBDA e : e.op = "send")

\* C25: a free-chat text message of a user without a gpt session, with the
\* remote thread created and ask returning: the handler creates exactly one
\* session, calls add_message exactly twice (user with the text, then
\* assistant with the reply of ask) and the new thread's stored log is
\* exactly these two messages in that order.
C25_FirstExchangeLogged ==
    LET h == handler IN
    (/\ h.kind = "gpt_message_handler"
     /\ h.pc = "done"
     /\ ~ h.had_session
     /\ h.asked = "return")
    => /\ h.created = {SessionRow(h.tg_user_id, "gpt", h.thread_id)}
       /\ h.created \subseteq gpt_sessions
       /\ Adds(h) = <<HEvent("add_message", h.thread_id, "user", h.user_message, TRUE),
                      HEvent("add_message", h.thread_id, "assistant", h.reply, TRUE)>>
       /\ AsDicts(ThreadRows(gpt_messages, h.thread_id)) =
             <<[role |-> "user", content |-> h.user_message],
               [role |-> "assistant", content |-> h.reply]>>
       /\ h.error = ""

\* The first free-chat exchange of a user, answered "hi there", in a store
\* that already holds another thread's messages.
C25_Witness ==
    /\ handler.kind = "gpt_message_handler"
    /\ handler.pc = "done"
    /\ ~ handler.had_session
    /\ handler.asked = "return"
    /\ handler.reply = "hi there"
    /\ Len(gpt_messages) > 2

\* The mode the claim gives each handler.
ClaimedMode(kind) ==
    CASE kind = "gpt_message_handler" -> "gpt"
      [] kind = "random" -> "random"
      [] OTHER -> "quiz"

\* C28: every message a handler stores for a user goes under the thread bound
\* to (that user, that handler's mode), so never under the thread of another
\* user or of another mode.
C28_ModePartitionsHistory ==
    /\ \A s \in handler.stored :
          /\ SessionRow(s.tg_user_id, ClaimedMode(s.kind), s.thread) \in gpt_sessions
          /\ \A r \in gpt_sessions :
                r.openai_thread_id = s.thread =>
                    (r.tg_user_id = s.tg_user_id /\ r.mode = ClaimedMode(s.kind))
    /\ \A i \in 1..Len(gpt_messages) :
          \E s \in handler.stored : s.thread = gpt_messages[i].openai_thread_id

\* Messages were stored for one user in two modes and for the other user.
C28_Witness ==
    \E s1, s2, s3 \in handler.stored :
        /\ s1.tg_user_id = s2.tg_user_id
        /\ s1.kind # s2.kind
        /\ s1.thread # s2.thread
        /\ s3.tg_user_id # s1.tg_user_id

StepIsOwn(p) ==
    asker'[p] # asker[p] =>
        /\ \A q \in DOMAIN asker : q # p => asker'[q] = asker[q]
        /\ \A t \in DOMAIN remoteRun :
              t # asker'[p].thread_id =>
                  /\ remoteRun'[t] = remoteRun[t]
                  /\ remoteMsgs'[t] = remoteMsgs[t]

UserMessages(msgs) == SelectSeq(msgs, LAMBDA m : m.role = "user")
PostedOk(c) ==
    \E j \in DOMAIN c.calls :
        c.calls[j].op = "messages.create" /\ c.calls[j].status # "error"

\* What a call holds of its thread is what the thread holds: the thread shows
\* the call's own post and no other, the latest run of the thread is the one
\* the call listed or started, as it last observed it, and the reply is the
\* newest assistant text of its thread.
ViewIsOwn(c) ==
    LET t == c.thread_id IN
    /\ UserMessages(remoteMsgs[t]) =
          IF PostedOk(c) THEN <<Msg("user", c.user_message)>> ELSE <<>>
    /\ c.run # NoRun => remoteRun[t] = c.run
    /\ (c.run = NoRun /\ c.calls # <<>> /\ c.calls[1].status # "error") =>
          remoteRun[t] = c.latest_run
    /\ c.result.kind = "return" =>
          c.result.value = LatestAssistantText(remoteMsgs[t])

\* C26: calls of ask on different thread ids, interleaved in every way: each
\* call posts, starts runs and polls only on its own thread, no step of one
\* call changes the other call or the other thread, and so each call's reply,
\* error and run starts are those of its own thread alone.
C26_ConcurrentCallsDoNotInterfere ==
    /\ [](\A p \in DOMAIN asker : asker[p].pc # "idle" => ViewIsOwn(asker[p]))
    /\ [][\A p \in DOMAIN asker : StepIsOwn(p)]_vars

\* Both calls are in the middle of their work: one polls its second run, the
\* other has seen the run left on its thread end and polls its own.
C26_Witness ==
    /\ asker["a1"].pc = "run_poll"
    /\ asker["a1"].attempt = 2
    /\ asker["a2"].pc = "run_poll"
    /\ PriorPolls(asker["a2"]) # {}
    /\ remoteRun[1].id = 2
    /\ remoteRun[2].id = 2

\* ------------------------------------------ claims on the result of ask
\* C33: whenever ask returns, the last run the call started ended completed
\* and the reply was read after that (messages.list is the call's last step),
\* for every max_retries >= 0 and every terminal status of a run.
C33_ReturnsOnlyAfterCompletedRun ==
    \A p \in AskCalls :
        LET c == asker[p] IN
        c.result.kind = "return" =>
            /\ c.outcomes # <<>>
            /\ c.outcomes[Len(c.outcomes)].status = "completed"
            /\ c.calls[Len(c.calls)].op = "messages.list"

\* The calls of messages.create the call has made, failed ones included.
Posts(c) == Cardinality({j \in DOMAIN c.calls : c.calls[j].op = "messages.create"})

\* The drain phase ended the call: runs.list or a retrieve of the prior run
\* raised, or the prior run was seen to fail.
DrainAborted(c) ==
    /\ c.result.kind = "raise"
    /\ \/ c.result.cause = "previous_run_failed"
       \/ /\ c.result.cause = "api_error"
          /\ c.result.detail \in {"runs.list", "runs.retrieve"}
          /\ c.calls[Len(c.calls)].run = 0

\* The copies of the call's message the thread held before the call.
CopiesBefore(msgs) ==
    IF Len(msgs) >= 2 /\ msgs[2] = Msg("assistant", "old reply") THEN 1 ELSE 0

\* C34: one call of ask posts the user message once when its drain phase
\* passes and never when the drain phase aborts, however many runs it starts:
\* the thread gains one copy of the message when the post succeeds, none
\* otherwise, and no retry posts again.
C34_PostsOnce ==
    \A p \in AskCalls :
        LET c == asker[p]
            msgs == remoteMsgs[c.thread_id]
        IN c.pc # "idle" =>
            /\ Posts(c) <= 1
            /\ c.pc \in {"run_create", "run_poll", "backoff", "messages_list"} =>
                   Posts(c) = 1
            /\ c.pc = "done" => Posts(c) = IF DrainAborted(c) THEN 0 ELSE 1
            /\ Len(UserMessages(msgs)) =
                   CopiesBefore(msgs) + IF PostedOk(c) THEN 1 ELSE 0

\* The call retried twice after transient failures and returned; its thread
\* held a copy of the same text before.
C34_Witness ==
    \E p \in AskCalls :
        LET c == asker[p] IN
        /\ c.pc = "done"
        /\ c.result.kind = "return"
        /\ RunStarts(c) = 3
        /\ Len(UserMessages(remoteMsgs[c.thread_id])) = 2

\* ------------------------------- claims on the posts of the quiz request
PromptCopies(msgs) ==
    Cardinality({i \in DOMAIN msgs : msgs[i] = Msg("user", QuizPrompt)})
Replied(c) == {i \in DOMAIN c.outcomes : c.outcomes[i] # OpenAIError}

\* C35 as stated: one call of ask_quiz_with_retries posts the prompt at most
\* once, so the remote thread holds one copy of it, as the message log does.
C35_PromptPostedAtMostOnce ==
    \A q \in QuizCalls :
        quizzer[q].pc = "done" => PromptCopies(remoteMsgs[QuizThread]) <= 1

\* C35 amended: every attempt calls ask with the same prompt, and ask posts
\* it each time its drain phase passes: the remote thread holds one copy for
\* every attempt that got a reply, and at most one for every attempt made,
\* max_attempts at most.
C35_PromptPostedOncePerAttempt ==
    \A q \in QuizCalls :
        LET c == quizzer[q]
            n == PromptCopies(remoteMsgs[QuizThread])
        IN /\ Cardinality(Replied(c)) <= n
           /\ n <= Len(c.outcomes)
           /\ Len(c.outcomes) <= c.max_attempts

\* Two attempts, both answered with text that is no JSON: two copies.
C35_Witness ==
    \E q \in QuizCalls :
        /\ quizzer[q].pc = "done"
        /\ quizzer[q].max_attempts = 2
        /\ quizzer[q].outcomes = <<"Sorry, I cannot do that.", "Sorry, I cannot do that.">>
        /\ PromptCopies(remoteMsgs[QuizThread]) = 2

\* ------------------------------------------ claims on the quiz progress
\* The update taken in this step is the command or button cmd of user u.
Runs(u, kinds) ==
    /\ Free
    /\ handler'.kind \in kinds
    /\ handler'.tg_user_id = u

\* C31: when start, random or gpt runs for a user whose mode is quiz, the quiz
\* progress is popped before the body runs: at the body's first await and at
\* its end the user has no quiz progress, and the body has set the mode.
C31_QuizDroppedOnLeavingQuiz ==
    /\ [][\A u \in BotUsers :
            (Runs(u, {"start", "random", "gpt"}) /\ user_data[u].mode = "quiz") =>
                /\ user_data'[u].quiz = NoQuiz
                /\ user_data'[u].mode # "quiz"]_vars
    /\ [](handler.kind \in {"start", "random", "gpt"} =>
             user_data[handler.tg_user_id].quiz = NoQuiz)

\* /gpt of a user who had answered the first of two questions.
C31_Witness ==
    /\ handler.kind = "gpt"
    /\ handler.quiz_before.active
    /\ handler.quiz_before.current = 1
    /\ user_data[handler.tg_user_id].quiz = NoQuiz

C37_QuizHasSession ==
    /\ \A u \in BotUsers :
          user_data[u].quiz.active => get_thread_id(gpt_sessions, u, "quiz") # None
    /\ (handler.kind = "handle_quiz_answer" /\ handler.pc \in {"add_user", "add_assistant"})
          => handler.thread_id # None
    /\ handler.kind = "handle_quiz_answer" =>
          \A i \in DOMAIN handler.events :
              handler.events[i].op = "add_message" =>
                  /\ handler.events[i].thread # None
                  /\ handler.events[i].ok

\* The answer to the first of two questions and its feedback were stored
\* under the thread of the user's quiz session.
C37_Witness ==
    /\ handler.kind = "handle_quiz_answer"
    /\ handler.pc = "done"
    /\ Len(Adds(handler)) = 2
    /\ user_data[handler.tg_user_id].quiz.current = 1
    /\ SessionRow(handler.tg_user_id, "quiz", handler.thread_id) \in gpt_sessions

\* C32: a quiz answer handled while a quiz is active moves current on by one,
\* adds one to the score exactly when the answer equals the correct one
\* without regard to case, and stores one user and one assistant message;
\* after the answer to the last question the quiz progress is removed; and
\* whenever a handler has ended and a quiz is active,
\* 0 <= score <= current < number of questions.
C32_AnswerAdvancesQuiz ==
    LET h == handler
        b == h.quiz_before
        q == user_data[h.tg_user_id].quiz
    IN
    /\ (h.kind = "handle_quiz_answer" /\ h.pc = "done" /\ b.active) =>
          LET correct == Lower(h.user_message) = Lower(b.questions[b.current + 1].answer)
          IN /\ h.error = ""
             /\ Adds(h) = <<HEvent("add_message", h.thread_id, "user", h.user_message, TRUE),
                            HEvent("add_message", h.thread_id, "assistant", h.reply, TRUE)>>
             /\ IF b.current + 1 = Len(b.questions)
                THEN q = NoQuiz
                ELSE /\ q.active
                     /\ q.questions = b.questions
                     /\ q.current = b.current + 1
                     /\ q.score = b.score + IF correct THEN 1 ELSE 0
    /\ \A u \in BotUsers :
          (Free /\ user_data[u].quiz.active) =>
              /\ 0 <= user_data[u].quiz.score
              /\ user_data[u].quiz.score <= user_data[u].quiz.current
              /\ user_data[u].quiz.current < Len(user_data[u].quiz.questions)

\* ------------------------------------------------- claims on the log
RoleCount(rows, role) == Cardinality({i \in DOMAIN rows : rows[i].role = role})

\* C38: in every thread of the log, at every point of it, there are no more
\* assistant messages than user messages: an assistant message follows the
\* user message of its exchange, also after exchanges whose ask or
\* ask_quiz_with_retries failed.
C38_AssistantFollowsUser ==
    \A t \in {gpt_messages[i].openai_thread_id : i \in DOMAIN gpt_messages} :
        LET rows == ThreadRows(gpt_messages, t) IN
        \A k \in 1..Len(rows) :
            RoleCount(SubSeq(rows, 1, k), "assistant") <= RoleCount(SubSeq(rows, 1, k), "user")

\* A thread holds the user message of a failed exchange and then a whole
\* exchange.
C38_Witness ==
    /\ handler.pc = "done"
    /\ handler.asked = "return"
    /\ \E t \in {gpt_messages[i].openai_thread_id : i \in DOMAIN gpt_messages} :
          LET rows == ThreadRows(gpt_messages, t) IN
          /\ Len(rows) = 3
          /\ rows[1].role = "user" /\ rows[2].role = "user" /\ rows[3].role = "assistant"

====
